---- MODULE Spec2Model ----
(***************************************************************************)
(* Model of the signal-generation core of the trading bot:                 *)
(*   AssetManager      (bot/asset_manager.py)    rotation and selection    *)
(*   SignalGenerator   (bot/signal_generator.py) fusion, confidence,       *)
(*                                               generate_signal pipeline  *)
(*   SignalValidator   (bot/signal_validator.py) gate chain, history,      *)
(*                                               accuracy records          *)
(*                                                                         *)
(* Time is in seconds.  Fractions in [0,1] are fixed-point integers with   *)
(* One = 1.0, so that thirds (agreement ratios) and hundredths are exact.  *)
(* A confidence percentage p is the integer p * One.                       *)
(***************************************************************************)
EXTENDS Integers, Sequences, FiniteSets, TLC

VARIABLES
    now,                     \* the wall clock read by datetime.now()
    current_rotation_index,  \* AssetManager.current_rotation_index
    last_used,               \* AssetManager.last_used   (NoTime = absent)
    usage_count,             \* AssetManager.usage_count (0 = absent)
    signal_history,          \* SignalValidator.signal_history
    accuracy_tracker,        \* SignalValidator.accuracy_tracker
    generated_signals,       \* SignalGenerator.generated_signals
    validated_signals,       \* SignalGenerator.validated_signals
    calls,                   \* number of get_next_asset calls made so far
    result,                  \* what the last operation returned / logged
    origin,                  \* calls, clock and updates of the initial state
    bot                      \* TradingBot: the coroutines of its signal handlers

vars == <<now, current_rotation_index, last_used, usage_count, signal_history,
          accuracy_tracker, generated_signals, validated_signals, calls, result,
          origin, bot>>

----------------------------------------------------------------------------
(* Bounds of the exploration *)

MaxCalls == 2          \* generate_signal calls explored after the initial state
MaxTime == 600         \* seconds of clock explored after the initial state
MaxUpdates == 1        \* update_accuracy calls explored after the initial state

Deltas == {300}        \* clock advances between two operations
Elapsed == {0, 300}    \* time spent in analyze_asset (market-data fetch)
Hours == {1, 24}       \* arguments given to cleanup_old_signals
OutcomeAssets == {"BTC/USD", "USD/TRY"}  \* instruments whose outcomes get resolved

----------------------------------------------------------------------------
(* Fixed point *)

One == 3000

Min(a, b) == IF a <= b THEN a ELSE b
Max(a, b) == IF a >= b THEN a ELSE b

Range(f) == {f[i] : i \in DOMAIN f}

RECURSIVE SeqSum(_)
SeqSum(s) == IF s = <<>> THEN 0 ELSE Head(s) + SeqSum(Tail(s))

----------------------------------------------------------------------------
(* config/settings.py *)

MINIMUM_CONFIDENCE == 65
SIGNAL_EXPIRATION_MINUTES == 3
TARGET_ACCURACY == 90

\* The first instruments of each category list (the lists have 18/18/30/30).
CURRENCY_PAIRS == <<"EUR/USD", "GBP/USD">>
CRYPTOCURRENCIES == <<"BTC/USD">>
OTC_CURRENCY_PAIRS == <<"USD/TRY">>
OTC_CRYPTOCURRENCIES == <<"BNB/USD">>

VALIDATION_RULES ==
    [min_confidence |-> 65,
     max_signals_per_asset |-> 5,
     cooldown_minutes |-> 10,
     required_indicators |-> 2,
     trend_confirmation |-> FALSE,
     volume_confirmation |-> FALSE]

----------------------------------------------------------------------------
(* AssetManager *)

assets ==
    [currency_pairs |-> CURRENCY_PAIRS,
     cryptocurrencies |-> CRYPTOCURRENCIES,
     otc_currency_pairs |-> OTC_CURRENCY_PAIRS,
     otc_cryptocurrencies |-> OTC_CRYPTOCURRENCIES]

category_rotation ==
    <<"currency_pairs", "cryptocurrencies", "otc_currency_pairs", "otc_cryptocurrencies">>

Categories == Range(category_rotation)
AllAssets == UNION {Range(assets[c]) : c \in Categories}

NoTime == -1

\* seconds in "(current_time - last_used).total_seconds() > 1800"
RECENT_SECONDS == 1800

\* _get_next_category: the category returned, and the index it leaves behind.
\* current_rotation_index is 0-based as in the code.
_get_next_category(idx) ==
    [category |-> category_rotation[idx + 1],
     index |-> (idx + 1) % Len(category_rotation)]

\* "not last_used or (current_time - last_used).total_seconds() > 1800"
NotRecentlyUsed(a, lu, t) == lu[a] = NoTime \/ t - lu[a] > RECENT_SECONDS

\* the list built by the filter loop, in category order
filtered_assets(category, lu, t) ==
    LET Keep(a) == NotRecentlyUsed(a, lu, t)
    IN  SelectSeq(assets[category], Keep)

\* variant: the recency filter is not applied
SelectionPool_unfiltered(category, lu, t) == assets[category]

\* the pool after "if not filtered_assets: filtered_assets = available_assets"
SelectionPool(category, lu, t) ==
    IF filtered_assets(category, lu, t) = <<>>
    THEN assets[category]
    ELSE filtered_assets(category, lu, t)

\* variant: the weight without its floor of 1
Weight_unfloored(usage) == 10 - usage

\* "weight = max(1, 10 - usage)"
Weight(usage) == Max(1, 10 - usage)

\* random.choices(filtered_assets, weights=asset_weights)[0]: any element of
\* the pool whose weight is positive can come out.
_select_asset_from_category(category, lu, uc, t) ==
    {a \in Range(SelectionPool(category, lu, t)) : Weight(uc[a]) > 0}

----------------------------------------------------------------------------
(* Analysis: the fields of MarketAnalyzer.analyze_asset's result that the  *)
(* generator and the validator read.                                       *)

Analysis(tsig, tstr, scat, sconf, pname, psig, pconf, inds, overall) ==
    [raised |-> FALSE,
     trend |-> [signal |-> tsig, strength |-> tstr],
     sentiment |-> [category |-> scat, confidence |-> sconf],
     patterns |-> [pattern |-> pname, signal |-> psig, confidence |-> pconf],
     indicators |-> inds,
     confidence_factors |-> [overall_confidence |-> overall]]

Indicators(rsi, macd, boll) ==
    [RSI |-> [signal |-> rsi], MACD |-> [signal |-> macd], BOLLINGER |-> [signal |-> boll]]

\* all three sources vote BUY, two indicators agree: an accepted BUY
AnalysisBuy ==
    Analysis("BUY", 1800, "BULLISH", 2400, "hammer", "BUY", 2400,
             Indicators("BUY", "BUY", "NEUTRAL"), 1800)
\* the mirror image: an accepted SELL
AnalysisSell ==
    Analysis("SELL", 1800, "BEARISH", 2400, "shooting_star", "SELL", 2400,
             Indicators("SELL", "SELL", "NEUTRAL"), 1800)
\* all three sources vote BUY with an overall confidence of 0.4: an
\* accepted BUY of confidence 70
AnalysisModerate ==
    Analysis("BUY", 1800, "BULLISH", 2400, "hammer", "BUY", 2400,
             Indicators("BUY", "BUY", "NEUTRAL"), 1200)
\* no source votes: direction NEUTRAL
AnalysisNeutral ==
    Analysis("NEUTRAL", 300, "NEUTRAL", 300, "", "NEUTRAL", 1500,
             Indicators("NEUTRAL", "BUY", "NEUTRAL"), 600)
\* a direction, but a confidence of 40%
AnalysisLowConfidence ==
    Analysis("NEUTRAL", 600, "NEUTRAL", 1500, "hammer", "BUY", 2400,
             Indicators("NEUTRAL", "BUY", "SELL"), 900)
\* a confident BUY with one agreeing indicator only
AnalysisFewIndicators ==
    Analysis("BUY", 1800, "BULLISH", 2400, "hammer", "BUY", 2400,
             Indicators("BUY", "SELL", "NEUTRAL"), 1800)
\* a confident BUY with a sentiment confidence of 0.2
AnalysisWeakSentiment ==
    Analysis("BUY", 1800, "NEUTRAL", 600, "hammer", "BUY", 2400,
             Indicators("BUY", "BUY", "NEUTRAL"), 1800)
\* analyze_asset raises (caught by generate_signal's except clause)
AnalysisError ==
    [raised |-> TRUE,
     trend |-> [signal |-> "NEUTRAL", strength |-> 0],
     sentiment |-> [category |-> "NEUTRAL", confidence |-> 0],
     patterns |-> [pattern |-> "", signal |-> "NEUTRAL", confidence |-> 0],
     indicators |-> Indicators("NEUTRAL", "NEUTRAL", "NEUTRAL"),
     confidence_factors |-> [overall_confidence |-> 0]]

Analyses ==
    {AnalysisBuy, AnalysisSell, AnalysisNeutral, AnalysisLowConfidence,
     AnalysisFewIndicators, AnalysisWeakSentiment}

----------------------------------------------------------------------------
(* SignalGenerator: fusion and confidence *)

\* variant: weights that pass neither the margin nor the floor give NEUTRAL
_determine_signal_direction_floor_only(trend, sentiment, patterns) ==
    LET B(side, x) == IF x = side THEN 1 ELSE 0
        sentiment_signal ==
            IF sentiment.category = "BULLISH" THEN "BUY"
            ELSE IF sentiment.category = "BEARISH" THEN "SELL" ELSE "NEUTRAL"
        WeightOf(side) ==
            B(side, trend.signal) * 40 * trend.strength
            + B(side, sentiment_signal) * 35 * sentiment.confidence
            + B(side, patterns.signal) * 25 * patterns.confidence
        buy_weight == WeightOf("BUY")
        sell_weight == WeightOf("SELL")
    IN  IF {trend.signal, sentiment_signal, patterns.signal} = {"NEUTRAL"} THEN "NEUTRAL"
        ELSE IF buy_weight > sell_weight + 5 * One THEN "BUY"
        ELSE IF sell_weight > buy_weight + 5 * One THEN "SELL"
        ELSE IF Max(buy_weight, sell_weight) > 20 * One
             THEN (IF buy_weight > sell_weight THEN "BUY" ELSE "SELL")
        ELSE "NEUTRAL"

\* Vote weights are in units of 1/(100 * One): 0.4 * strength is 40 * strength.
_determine_signal_direction(trend, sentiment, patterns) ==
    LET tvote == IF trend.signal # "NEUTRAL"
                 THEN <<[s |-> trend.signal, w |-> 40 * trend.strength]>>
                 ELSE <<>>
        svote == IF sentiment.category # "NEUTRAL"
                 THEN <<[s |-> IF sentiment.category = "BULLISH" THEN "BUY" ELSE "SELL",
                         w |-> 35 * sentiment.confidence]>>
                 ELSE <<>>
        pvote == IF patterns.signal # "NEUTRAL"
                 THEN <<[s |-> patterns.signal, w |-> 25 * patterns.confidence]>>
                 ELSE <<>>
        votes == tvote \o svote \o pvote
        WeightOf(side) ==
            SeqSum([i \in 1..Len(votes) |->
                        IF votes[i].s = side THEN votes[i].w ELSE 0])
        buy_weight == WeightOf("BUY")
        sell_weight == WeightOf("SELL")
        min_difference == 5 * One
    IN  IF votes = <<>> THEN "NEUTRAL"
        ELSE IF buy_weight > sell_weight + min_difference THEN "BUY"
        ELSE IF sell_weight > buy_weight + min_difference THEN "SELL"
        ELSE IF Max(buy_weight, sell_weight) > 20 * One
             THEN (IF buy_weight > sell_weight THEN "BUY" ELSE "SELL")
        ELSE IF buy_weight > 0 \/ sell_weight > 0
             THEN (IF buy_weight >= sell_weight THEN "BUY" ELSE "SELL")
        ELSE "NEUTRAL"

\* variant: the bonus has the opposite sign, (0.5 - ratio) * 0.2
_calculate_signal_confidence_inverted(analysis, signal_direction) ==
    LET base_confidence == analysis.confidence_factors.overall_confidence
        sentiment_signal ==
            IF analysis.sentiment.category = "BULLISH" THEN "BUY"
            ELSE IF analysis.sentiment.category = "BEARISH" THEN "SELL" ELSE "NEUTRAL"
        B(x) == IF x THEN 1 ELSE 0
        agreeing_sources ==
            B(analysis.trend.signal = signal_direction) + B(sentiment_signal = signal_direction)
            + B(analysis.patterns.signal = signal_direction)
        total_sources ==
            B(analysis.trend.signal # "NEUTRAL") + B(sentiment_signal # "NEUTRAL")
            + B(analysis.patterns.signal # "NEUTRAL")
        agreement_bonus ==
            IF total_sources > 0
            THEN (One * (total_sources - 2 * agreeing_sources)) \div (10 * total_sources)
            ELSE 0
        final_confidence == Min(base_confidence + agreement_bonus, One)
        boosted ==
            IF 10 * final_confidence > 4 * One
            THEN Min(final_confidence + One \div 5, One)
            ELSE final_confidence
    IN  boosted * 100

\* The result is the percentage times One ("final_confidence * 100").
_calculate_signal_confidence(analysis, signal_direction) ==
    LET base_confidence == analysis.confidence_factors.overall_confidence
        trend == analysis.trend
        sentiment == analysis.sentiment
        patterns == analysis.patterns
        sentiment_signal ==
            IF sentiment.category = "BULLISH" THEN "BUY"
            ELSE IF sentiment.category = "BEARISH" THEN "SELL" ELSE "NEUTRAL"
        B(x) == IF x THEN 1 ELSE 0
        agreeing_sources ==
            B(trend.signal = signal_direction) + B(sentiment_signal = signal_direction)
            + B(patterns.signal = signal_direction)
        total_sources ==
            B(trend.signal # "NEUTRAL") + B(sentiment_signal # "NEUTRAL")
            + B(patterns.signal # "NEUTRAL")
        \* (agreeing/total - 0.5) * 0.2, exact for total in 1..3
        agreement_bonus ==
            IF total_sources > 0
            THEN (One * (2 * agreeing_sources - total_sources)) \div (10 * total_sources)
            ELSE 0
        final_confidence == Min(base_confidence + agreement_bonus, One)
        boosted ==
            IF 10 * final_confidence > 4 * One
            THEN Min(final_confidence + One \div 5, One)
            ELSE final_confidence
    IN  boosted * 100

\* variant: the confidence floor is not applied
_create_signal_from_analysis_unfloored(asset, category, analysis, t) ==
    LET signal_direction ==
            _determine_signal_direction(analysis.trend, analysis.sentiment, analysis.patterns)
        confidence == _calculate_signal_confidence(analysis, signal_direction)
    IN  IF signal_direction = "NEUTRAL" THEN <<>>
        ELSE <<[asset |-> asset,
                category |-> category,
                direction |-> signal_direction,
                confidence |-> confidence,
                expiration_time |-> t + SIGNAL_EXPIRATION_MINUTES * 60,
                generated_time |-> t,
                analysis |-> analysis,
                accuracy_target |-> TARGET_ACCURACY]>>

\* _create_signal_from_analysis: <<>> is None, <<signal_data>> a signal.
\* t is the clock read by timezone_handler.now().
_create_signal_from_analysis(asset, category, analysis, t) ==
    LET signal_direction ==
            _determine_signal_direction(analysis.trend, analysis.sentiment, analysis.patterns)
        confidence == _calculate_signal_confidence(analysis, signal_direction)
    IN  IF signal_direction = "NEUTRAL" THEN <<>>
        ELSE IF confidence < MINIMUM_CONFIDENCE * One THEN <<>>
        ELSE <<[asset |-> asset,
                category |-> category,
                direction |-> signal_direction,
                confidence |-> confidence,
                expiration_time |-> t + SIGNAL_EXPIRATION_MINUTES * 60,
                generated_time |-> t,
                analysis |-> analysis,
                accuracy_target |-> TARGET_ACCURACY]>>

----------------------------------------------------------------------------
(* SignalValidator *)

\* "if len(self.signal_history) > 100: ... [-100:]"
HISTORY_LIMIT == 100

\* timedelta(hours=1) in seconds
HourSeconds(hours) == hours * 3600

_check_minimum_confidence(signal_data) ==
    signal_data.confidence >= VALIDATION_RULES.min_confidence * One

\* variant: the loop runs over signal_history from the front and stops at
\* the oldest entry of the asset
_check_asset_cooldown_oldest(signal_data, history, t) ==
    LET matching == {i \in 1..Len(history) : history[i].asset = signal_data.asset}
    IN  IF matching = {} THEN TRUE
        ELSE LET first == CHOOSE i \in matching : \A j \in matching : i <= j
             IN  ~(t - history[first].timestamp < VALIDATION_RULES.cooldown_minutes * 60)

\* variant: only the newest history entry is looked at
_check_asset_cooldown_newest_only(signal_data, history, t) ==
    IF history = <<>> \/ history[Len(history)].asset # signal_data.asset THEN TRUE
    ELSE ~(t - history[Len(history)].timestamp < VALIDATION_RULES.cooldown_minutes * 60)

\* the loop over reversed(signal_history) stops at the newest entry of the asset
_check_asset_cooldown(signal_data, history, t) ==
    LET matching == {i \in 1..Len(history) : history[i].asset = signal_data.asset}
    IN  IF matching = {} THEN TRUE
        ELSE LET last == CHOOSE i \in matching : \A j \in matching : j <= i
             IN  ~(t - history[last].timestamp < VALIDATION_RULES.cooldown_minutes * 60)

RecentSignals(asset, history, t) ==
    {i \in 1..Len(history) :
        history[i].asset = asset /\ history[i].timestamp > t - HourSeconds(1)}

\* variant: one signal too many is let through
_check_signal_frequency_inclusive(signal_data, history, t) ==
    Cardinality(RecentSignals(signal_data.asset, history, t))
        <= VALIDATION_RULES.max_signals_per_asset

_check_signal_frequency(signal_data, history, t) ==
    Cardinality(RecentSignals(signal_data.asset, history, t))
        < VALIDATION_RULES.max_signals_per_asset

_check_indicator_agreement(signal_data) ==
    LET indicators == signal_data.analysis.indicators
        agreeing_indicators ==
            Cardinality({n \in DOMAIN indicators :
                            indicators[n].signal = signal_data.direction})
    IN  agreeing_indicators >= VALIDATION_RULES.required_indicators

_check_trend_confirmation(signal_data) ==
    IF ~VALIDATION_RULES.trend_confirmation THEN TRUE
    ELSE LET trend == signal_data.analysis.trend
         IN  trend.signal = signal_data.direction /\ 10 * trend.strength > 5 * One

\* variant: the pattern floor is applied whether or not a pattern was detected
_check_signal_quality_always_pattern(signal_data) ==
    LET analysis == signal_data.analysis
    IN  /\ 10 * analysis.sentiment.confidence >= 3 * One
        /\ 10 * analysis.patterns.confidence >= 4 * One
        /\ 10 * analysis.confidence_factors.overall_confidence >= 3 * One

_check_signal_quality(signal_data) ==
    LET analysis == signal_data.analysis
        sentiment_confidence == analysis.sentiment.confidence
        pattern_confidence == analysis.patterns.confidence
        overall_confidence == analysis.confidence_factors.overall_confidence
        min_sentiment_confidence == 3 * One
        min_pattern_confidence == IF analysis.patterns.pattern # "" THEN 4 * One ELSE 0
        min_overall_confidence == 3 * One
    IN  /\ 10 * sentiment_confidence >= min_sentiment_confidence
        /\ 10 * pattern_confidence >= min_pattern_confidence
        /\ 10 * overall_confidence >= min_overall_confidence

\* variant: exactly 70% is not enough
_check_historical_accuracy_strict(signal_data, accuracy) ==
    IF signal_data.asset \notin DOMAIN accuracy THEN TRUE
    ELSE LET total_signals == accuracy[signal_data.asset].total
             correct_signals == accuracy[signal_data.asset].correct
         IN  IF total_signals < 10 THEN TRUE
             ELSE correct_signals * 100 > 70 * total_signals

\* (correct / total) * 100 >= 70, in exact arithmetic
_check_historical_accuracy(signal_data, accuracy) ==
    IF signal_data.asset \notin DOMAIN accuracy THEN TRUE
    ELSE LET total_signals == accuracy[signal_data.asset].total
             correct_signals == accuracy[signal_data.asset].correct
         IN  IF total_signals < 10 THEN TRUE
             ELSE correct_signals * 100 >= 70 * total_signals

\* variant: the frequency cap is checked before the cooldown
validate_signal_frequency_first(signal_data, history, accuracy, t) ==
    IF ~_check_minimum_confidence(signal_data)
    THEN [ok |-> FALSE, message |-> "Signal confidence below minimum threshold"]
    ELSE IF ~_check_signal_frequency(signal_data, history, t)
    THEN [ok |-> FALSE, message |-> "Too many signals for this asset recently"]
    ELSE IF ~_check_asset_cooldown(signal_data, history, t)
    THEN [ok |-> FALSE, message |-> "Asset still in cooldown period"]
    ELSE IF ~_check_indicator_agreement(signal_data)
    THEN [ok |-> FALSE, message |-> "Insufficient indicator agreement"]
    ELSE IF ~_check_trend_confirmation(signal_data)
    THEN [ok |-> FALSE, message |-> "Trend confirmation failed"]
    ELSE IF ~_check_signal_quality(signal_data)
    THEN [ok |-> FALSE, message |-> "Signal quality below standards"]
    ELSE IF ~_check_historical_accuracy(signal_data, accuracy)
    THEN [ok |-> FALSE, message |-> "Asset historical accuracy below threshold"]
    ELSE [ok |-> TRUE, message |-> "Signal validated successfully"]

validate_signal(signal_data, history, accuracy, t) ==
    IF ~_check_minimum_confidence(signal_data)
    THEN [ok |-> FALSE, message |-> "Signal confidence below minimum threshold"]
    ELSE IF ~_check_asset_cooldown(signal_data, history, t)
    THEN [ok |-> FALSE, message |-> "Asset still in cooldown period"]
    ELSE IF ~_check_signal_frequency(signal_data, history, t)
    THEN [ok |-> FALSE, message |-> "Too many signals for this asset recently"]
    ELSE IF ~_check_indicator_agreement(signal_data)
    THEN [ok |-> FALSE, message |-> "Insufficient indicator agreement"]
    ELSE IF ~_check_trend_confirmation(signal_data)
    THEN [ok |-> FALSE, message |-> "Trend confirmation failed"]
    ELSE IF ~_check_signal_quality(signal_data)
    THEN [ok |-> FALSE, message |-> "Signal quality below standards"]
    ELSE IF ~_check_historical_accuracy(signal_data, accuracy)
    THEN [ok |-> FALSE, message |-> "Asset historical accuracy below threshold"]
    ELSE [ok |-> TRUE, message |-> "Signal validated successfully"]

LastN(s, n) == IF Len(s) > n THEN SubSeq(s, Len(s) - n + 1, Len(s)) ELSE s

\* variant: the oldest 100 entries are kept ("[:100]")
record_signal_keep_oldest(history, signal_data, t) ==
    LET signal_record ==
            [asset |-> signal_data.asset,
             direction |-> signal_data.direction,
             confidence |-> signal_data.confidence,
             timestamp |-> t,
             expiration_time |-> signal_data.expiration_time]
        appended == Append(history, signal_record)
    IN  IF Len(appended) > HISTORY_LIMIT THEN SubSeq(appended, 1, HISTORY_LIMIT) ELSE appended

record_signal(history, signal_data, t) ==
    LET signal_record ==
            [asset |-> signal_data.asset,
             direction |-> signal_data.direction,
             confidence |-> signal_data.confidence,
             timestamp |-> t,
             expiration_time |-> signal_data.expiration_time]
        appended == Append(history, signal_record)
    IN  IF Len(appended) > HISTORY_LIMIT THEN LastN(appended, HISTORY_LIMIT) ELSE appended

\* variant: every outcome is counted as correct
update_accuracy_all_correct(accuracy, asset, was_correct) ==
    LET old == IF asset \in DOMAIN accuracy THEN accuracy[asset]
               ELSE [total |-> 0, correct |-> 0]
        new == [total |-> old.total + 1, correct |-> old.correct + 1]
    IN  [a \in DOMAIN accuracy \cup {asset} |-> IF a = asset THEN new ELSE accuracy[a]]

update_accuracy(accuracy, asset, was_correct) ==
    LET old == IF asset \in DOMAIN accuracy THEN accuracy[asset]
               ELSE [total |-> 0, correct |-> 0]
        new == [total |-> old.total + 1,
                correct |-> IF was_correct THEN old.correct + 1 ELSE old.correct]
    IN  [a \in DOMAIN accuracy \cup {asset} |-> IF a = asset THEN new ELSE accuracy[a]]

cleanup_old_signals(history, hours, t) ==
    LET cutoff_time == t - HourSeconds(hours)
        Keep(signal) == signal.timestamp > cutoff_time
    IN  SelectSeq(history, Keep)

----------------------------------------------------------------------------
(* The program state as one record, and the operations as functions on it *)

State ==
    [now |-> now,
     current_rotation_index |-> current_rotation_index,
     last_used |-> last_used,
     usage_count |-> usage_count,
     signal_history |-> signal_history,
     accuracy_tracker |-> accuracy_tracker,
     generated_signals |-> generated_signals,
     validated_signals |-> validated_signals,
     calls |-> calls,
     result |-> result,
     origin |-> origin,
     bot |-> bot]

Becomes(s) ==
    \E next \in {s} :
        /\ now' = next.now
        /\ current_rotation_index' = next.current_rotation_index
        /\ last_used' = next.last_used
        /\ usage_count' = next.usage_count
        /\ signal_history' = next.signal_history
        /\ accuracy_tracker' = next.accuracy_tracker
        /\ generated_signals' = next.generated_signals
        /\ validated_signals' = next.validated_signals
        /\ calls' = next.calls
        /\ result' = next.result
        /\ origin' = next.origin
        /\ bot' = next.bot

Is(s) ==
    /\ now = s.now
    /\ current_rotation_index = s.current_rotation_index
    /\ last_used = s.last_used
    /\ usage_count = s.usage_count
    /\ signal_history = s.signal_history
    /\ accuracy_tracker = s.accuracy_tracker
    /\ generated_signals = s.generated_signals
    /\ validated_signals = s.validated_signals
    /\ calls = s.calls
    /\ result = s.result
    /\ origin = s.origin
    /\ bot = s.bot

\* op, asset, category: the operation and what get_next_asset returned;
\* reset: "All assets in ... used recently, resetting rotation" was logged;
\* outcome, message: how the operation ended and the validator's message;
\* arg: the signal_data given to validate_signal; ret: the signal returned
\* (<<>> is None).
Result(op, asset, category, reset, outcome, message, arg, ret) ==
    [op |-> op, asset |-> asset, category |-> category, reset |-> reset,
     outcome |-> outcome, message |-> message, arg |-> arg, ret |-> ret]

\* the operations that return nothing leave this behind
NoResult == Result("", "", "", FALSE, "", "", <<>>, <<>>)

\* the coroutines that call generate_signal: the /signal command and the
\* "get_signal" menu button
Handlers == {"get_signal_command", "_handle_signal_callback"}

\* what the generation pipeline reads of the generator
Seen(s) ==
    [current_rotation_index |-> s.current_rotation_index,
     last_used |-> s.last_used,
     usage_count |-> s.usage_count,
     signal_history |-> s.signal_history]

\* AlertManager.default_settings: the entries the delivery decision reads
default_settings ==
    [enabled |-> TRUE,
     min_confidence |-> 75,
     max_signals_per_hour |-> 5,
     signal_types |-> {"BUY", "SELL"}]

\* TradingBot.__init__: no handler is running.  pc is the await a coroutine
\* is suspended at; requested and ticket count the generate_signal calls
\* of the handlers made before the request came in and up to its own call;
\* category and signal_data are what its call drew and returned; seen is
\* the generator as it was when the coroutine was suspended.  user_alerts
\* is the requesting user's alert settings, delivered the signals sent to
\* that user, each with the settings in force when it was sent.
Idle ==
    [served |-> 0,
     user_alerts |-> default_settings,
     delivered |-> <<>>,
     handlers |-> [h \in Handlers |->
                     [pc |-> "idle", requested |-> 0, ticket |-> 0, category |-> "",
                      signal_data |-> <<>>,
                      seen |-> [current_rotation_index |-> 0,
                                last_used |-> [a \in AllAssets |-> NoTime],
                                usage_count |-> [a \in AllAssets |-> 0],
                                signal_history |-> <<>>]]]]

\* SignalGenerator.__init__ (with AssetManager.__init__, SignalValidator.__init__)
Constructed ==
    [now |-> 0,
     current_rotation_index |-> 0,
     last_used |-> [a \in AllAssets |-> NoTime],
     usage_count |-> [a \in AllAssets |-> 0],
     signal_history |-> <<>>,
     accuracy_tracker |-> <<>>,
     generated_signals |-> 0,
     validated_signals |-> 0,
     calls |-> 0,
     result |-> NoResult,
     origin |-> [calls |-> 0, now |-> 0, updates |-> 0],
     bot |-> Idle]

\* the category the next get_next_asset call takes
NextCategory(s) == _get_next_category(s.current_rotation_index).category

\* the instruments the next get_next_asset call can return
Selectable(s) ==
    _select_asset_from_category(NextCategory(s), s.last_used, s.usage_count, s.now)

\* variant: the last-used time is not stamped
get_next_asset_unstamped(s, asset) ==
    [s EXCEPT
        !.current_rotation_index = _get_next_category(s.current_rotation_index).index,
        !.usage_count = [s.usage_count EXCEPT ![asset] = s.usage_count[asset] + 1],
        !.calls = s.calls + 1]

\* AssetManager.get_next_asset, when the weighted draw gives asset
get_next_asset(s, asset) ==
    [s EXCEPT
        !.current_rotation_index = _get_next_category(s.current_rotation_index).index,
        !.last_used = [s.last_used EXCEPT ![asset] = s.now],
        !.usage_count = [s.usage_count EXCEPT ![asset] = s.usage_count[asset] + 1],
        !.calls = s.calls + 1]

\* variant: the accepted signal is returned without being recorded
generate_signal_unrecorded(s, asset, analysis, elapsed) ==
    LET category == NextCategory(s)
        reset == filtered_assets(category, s.last_used, s.now) = <<>>
        s1 == [get_next_asset(s, asset) EXCEPT !.now = s.now + elapsed]
        t == s1.now
        created == IF analysis.raised THEN <<>>
                   ELSE _create_signal_from_analysis(asset, category, analysis, t)
        verdict == validate_signal(created[1], s1.signal_history, s1.accuracy_tracker, t)
    IN  IF analysis.raised
        THEN [s1 EXCEPT !.result =
                Result("generate_signal", asset, category, reset, "error", "", <<>>, <<>>)]
        ELSE IF created = <<>>
        THEN [s1 EXCEPT !.result =
                Result("generate_signal", asset, category, reset, "no_signal", "", <<>>, <<>>)]
        ELSE IF ~verdict.ok
        THEN [s1 EXCEPT !.result =
                Result("generate_signal", asset, category, reset, "rejected",
                       verdict.message, created, <<>>)]
        ELSE [s1 EXCEPT
                !.generated_signals = s1.generated_signals + 1,
                !.validated_signals = s1.validated_signals + 1,
                !.result =
                    Result("generate_signal", asset, category, reset, "accepted",
                           verdict.message, created, created)]

\* variant: no except clause, an exception of analyze_asset reaches the caller
generate_signal_uncaught(s, asset, analysis, elapsed) ==
    LET caught == generate_signal_unrecorded(s, asset, analysis, elapsed)
        kept == [caught EXCEPT !.signal_history =
                    IF caught.result.outcome = "accepted"
                    THEN record_signal(caught.signal_history, caught.result.ret[1], caught.now)
                    ELSE caught.signal_history]
    IN  IF analysis.raised
        THEN [kept EXCEPT !.result.outcome = "raised"]
        ELSE kept

\* variant: generated_signals counts every candidate handed to the
\* validator, validated_signals the accepted ones
generate_signal_counting_candidates(s, asset, analysis, elapsed) ==
    LET done == generate_signal_unrecorded(s, asset, analysis, elapsed)
        recorded == [done EXCEPT !.signal_history =
                        IF done.result.outcome = "accepted"
                        THEN record_signal(done.signal_history, done.result.ret[1], done.now)
                        ELSE done.signal_history]
    IN  IF done.result.outcome = "rejected"
        THEN [recorded EXCEPT !.generated_signals = recorded.generated_signals + 1]
        ELSE recorded

\* SignalGenerator.generate_signal: asset is the outcome of the weighted
\* draw, analysis what analyze_asset returns, elapsed the time it takes.
generate_signal(s, asset, analysis, elapsed) ==
    LET category == NextCategory(s)
        reset == filtered_assets(category, s.last_used, s.now) = <<>>
        s1 == [get_next_asset(s, asset) EXCEPT !.now = s.now + elapsed]
        t == s1.now
        created == IF analysis.raised THEN <<>>
                   ELSE _create_signal_from_analysis(asset, category, analysis, t)
        verdict == validate_signal(created[1], s1.signal_history, s1.accuracy_tracker, t)
    IN  IF analysis.raised
        THEN [s1 EXCEPT !.result =
                Result("generate_signal", asset, category, reset, "error", "", <<>>, <<>>)]
        ELSE IF created = <<>>
        THEN [s1 EXCEPT !.result =
                Result("generate_signal", asset, category, reset, "no_signal", "", <<>>, <<>>)]
        ELSE IF ~verdict.ok
        THEN [s1 EXCEPT !.result =
                Result("generate_signal", asset, category, reset, "rejected",
                       verdict.message, created, <<>>)]
        ELSE [s1 EXCEPT
                !.signal_history = record_signal(s1.signal_history, created[1], t),
                !.generated_signals = s1.generated_signals + 1,
                !.validated_signals = s1.validated_signals + 1,
                !.result =
                    Result("generate_signal", asset, category, reset, "accepted",
                           verdict.message, created, created)]

\* variant: the reset also rewinds the category pointer
reset_usage_stats_rewinding(s) ==
    [s EXCEPT
        !.usage_count = [a \in AllAssets |-> 0],
        !.last_used = [a \in AllAssets |-> NoTime],
        !.current_rotation_index = 0,
        !.result = NoResult]

\* AssetManager.reset_usage_stats
reset_usage_stats(s) ==
    [s EXCEPT
        !.usage_count = [a \in AllAssets |-> 0],
        !.last_used = [a \in AllAssets |-> NoTime],
        !.result = NoResult]

\* SignalGenerator.reset_statistics
reset_statistics(s) ==
    [reset_usage_stats(s) EXCEPT
        !.generated_signals = 0,
        !.validated_signals = 0,
        !.result = NoResult]

\* SignalGenerator.get_statistics: the counters and the validation rate
\* (validated / generated * 100, in units of 1 / One)
get_statistics(s) ==
    [generated_signals |-> s.generated_signals,
     validated_signals |-> s.validated_signals,
     validation_rate |->
        IF s.generated_signals > 0
        THEN ((s.validated_signals * One) \div s.generated_signals) * 100
        ELSE 0]

\* a clock advance between two operations
advance(s, d) ==
    [s EXCEPT !.now = s.now + d,
              !.result = NoResult]

RECURSIVE SumTotals(_, _)
SumTotals(accuracy, todo) ==
    IF todo = {} THEN 0
    ELSE LET a == CHOOSE x \in todo : TRUE
         IN  accuracy[a].total + SumTotals(accuracy, todo \ {a})

\* number of update_accuracy calls made so far
Updates(s) == SumTotals(s.accuracy_tracker, DOMAIN s.accuracy_tracker)

----------------------------------------------------------------------------
(* Actions.  The guards on origin bound the exploration: at most MaxCalls  *)
(* calls, MaxTime seconds and MaxUpdates accuracy updates after the        *)
(* initial state.                                                          *)

GenerateSignal ==
    /\ calls < origin.calls + MaxCalls
    /\ \E asset \in Selectable(State), analysis \in Analyses \cup {AnalysisError},
          elapsed \in Elapsed :
            /\ now + elapsed <= origin.now + MaxTime
            /\ Becomes(generate_signal(State, asset, analysis, elapsed))

\* the signal_data a direct validate_signal call is given
Candidates ==
    {[asset |-> a, category |-> c, direction |-> d, confidence |-> p * One,
      expiration_time |-> now + SIGNAL_EXPIRATION_MINUTES * 60,
      generated_time |-> now, analysis |-> an, accuracy_target |-> TARGET_ACCURACY] :
        a \in AllAssets, c \in {""}, d \in {"BUY"}, p \in {60, 80},
        an \in {AnalysisBuy, AnalysisFewIndicators, AnalysisWeakSentiment}}

ValidateSignal ==
    \E signal_data \in Candidates :
        LET verdict == validate_signal(signal_data, signal_history, accuracy_tracker, now)
        IN  /\ result' = Result("validate_signal", signal_data.asset, "", FALSE,
                                IF verdict.ok THEN "valid" ELSE "invalid",
                                verdict.message, <<signal_data>>, <<>>)
            /\ UNCHANGED <<now, current_rotation_index, last_used, usage_count,
                           signal_history, accuracy_tracker, generated_signals,
                           validated_signals, calls, origin, bot>>

UpdateAccuracy ==
    /\ Updates(State) < origin.updates + MaxUpdates
    /\ \E asset \in OutcomeAssets, was_correct \in BOOLEAN :
        /\ accuracy_tracker' = update_accuracy(accuracy_tracker, asset, was_correct)
        /\ result' = NoResult
        /\ UNCHANGED <<now, current_rotation_index, last_used, usage_count,
                       signal_history, generated_signals, validated_signals, calls,
                       origin, bot>>

CleanupOldSignals ==
    \E hours \in Hours :
        /\ signal_history' = cleanup_old_signals(signal_history, hours, now)
        /\ result' = NoResult
        /\ UNCHANGED <<now, current_rotation_index, last_used, usage_count,
                       accuracy_tracker, generated_signals, validated_signals, calls,
                       origin, bot>>

ResetUsageStats == Becomes(reset_usage_stats(State))

ResetStatistics == Becomes(reset_statistics(State))

Tick ==
    \E d \in Deltas :
        /\ now + d <= origin.now + MaxTime
        /\ Becomes(advance(State, d))

\* the operations the bot calls on its generator
Next ==
    \/ GenerateSignal
    \/ CleanupOldSignals
    \/ ResetUsageStats
    \/ ResetStatistics
    \/ Tick

\* the validator's operations, validate_signal called directly included,
\* around one generate_signal call
NextValidator ==
    \/ (calls = origin.calls /\ GenerateSignal)
    \/ ValidateSignal
    \/ UpdateAccuracy
    \/ CleanupOldSignals
    \/ Tick

----------------------------------------------------------------------------
(* Initial states.  Besides the freshly constructed program, the           *)
(* exploration starts from states the program reaches by a fixed script of *)
(* its own operations (replayed with the definitions above), so that the   *)
(* deep cases - a full history, five signals in an hour, ten recorded      *)
(* outcomes, a usage count above ten - lie within the bounds.              *)

\* the first instrument, in category order, that the next call can return
FirstSelectable(s) ==
    LET pool == assets[NextCategory(s)]
        ok == {i \in 1..Len(pool) : pool[i] \in Selectable(s)}
    IN  IF ok = {} THEN pool[1]
        ELSE pool[CHOOSE i \in ok : \A j \in ok : i <= j]

Gen(analysis) == [op |-> "generate", analysis |-> analysis, d |-> 0, asset |-> "", correct |-> FALSE]
Wait(d) == [op |-> "tick", analysis |-> AnalysisError, d |-> d, asset |-> "", correct |-> FALSE]
Outcome(asset, correct) ==
    [op |-> "update", analysis |-> AnalysisError, d |-> 0, asset |-> asset, correct |-> correct]

Run(s, cmd) ==
    IF cmd.op = "generate" THEN generate_signal(s, FirstSelectable(s), cmd.analysis, 0)
    ELSE IF cmd.op = "tick" THEN advance(s, cmd.d)
    ELSE [s EXCEPT !.accuracy_tracker = update_accuracy(s.accuracy_tracker, cmd.asset, cmd.correct),
                   !.result = NoResult]

\* the state after the operations of script, in order; each intermediate
\* state is bound as a value before the next operation is applied to it
RECURSIVE Replay(_, _)
Replay(s, script) ==
    IF script = <<>> THEN s
    ELSE CHOOSE end \in {Replay(next, Tail(script)) : next \in {Run(s, Head(script))}} : TRUE

RECURSIVE Repeat(_, _)
Repeat(script, n) == IF n = 0 THEN <<>> ELSE script \o Repeat(script, n - 1)

\* a reached state taken as the origin of the exploration
Origin(s) ==
    [s EXCEPT !.result = NoResult,
              !.origin = [calls |-> s.calls, now |-> s.now, updates |-> Updates(s)]]

\* one turn of the four categories, every candidate acceptable
Round == Repeat(<<Gen(AnalysisBuy)>>, 4)

\* five calls at time 0: every instrument has an accepted signal, and the
\* next call takes "BTC/USD" again
ScriptCooldown == Repeat(<<Gen(AnalysisBuy)>>, 5)
AfterCooldown == Replay(Constructed, ScriptCooldown)

\* five turns ten minutes apart: "BTC/USD" has five accepted signals within
\* the hour, and both currency pairs were used in the last 30 minutes
ScriptFrequency == Repeat(Round \o <<Wait(600)>>, 4) \o Round
AfterFrequency == Replay(Constructed, ScriptFrequency)

\* turns fifteen minutes apart, every signal accepted, replayed eight turns
\* at a time; three more calls make 99 history entries
ScriptTurns == Repeat(Round \o <<Wait(900)>>, 8)
AfterTurns8 == Replay(Constructed, ScriptTurns)
AfterTurns16 == Replay(AfterTurns8, ScriptTurns)
AfterTurns24 == Replay(AfterTurns16, ScriptTurns)
AfterHistory == Replay(AfterTurns24, Repeat(<<Gen(AnalysisBuy)>>, 3))

\* the same turns, then fifteen idle minutes: "EUR/USD" has a high usage
\* count and was last used 30 minutes ago
AfterIdle == Replay(AfterTurns24, <<Wait(900)>>)

\* nine outcomes for "BTC/USD", six of them correct
ScriptOutcomes ==
    Repeat(<<Outcome("BTC/USD", TRUE)>>, 6) \o Repeat(<<Outcome("BTC/USD", FALSE)>>, 3)

\* one call, then the nine outcomes: "BTC/USD" is the next to be taken
AfterAccuracy == Replay(Constructed, <<Gen(AnalysisNeutral)>> \o ScriptOutcomes)

\* five signals within the hour and nine outcomes for "BTC/USD", the next
\* to be taken
AfterBoth == Replay(AfterFrequency, <<Gen(AnalysisNeutral)>> \o ScriptOutcomes)

Seeds ==
    {Constructed, Origin(AfterCooldown), Origin(AfterFrequency), Origin(AfterHistory),
     Origin(AfterIdle), Origin(AfterAccuracy), Origin(AfterBoth)}

Init == \E s \in Seeds : Is(s)

Spec == Init /\ [][Next]_vars

SpecValidator == Init /\ [][NextValidator]_vars


----------------------------------------------------------------------------
(* What the last operation did, read from the state it left.               *)

\* the last operation was a generate_signal call
GenerateResult == result.op = "generate_signal"

\* the last operation was a direct validate_signal call
ValidateResult == result.op = "validate_signal"

\* the last operation put a candidate through validate_signal
Validated == result.arg # <<>>

\* the candidate validate_signal was given
Candidate == result.arg[1]

\* validate_signal said no
Refused == result.outcome \in {"invalid", "rejected"}

\* validate_signal said yes
Passed == result.outcome \in {"valid", "accepted"}

\* the history validate_signal read: record_signal runs after it
PriorHistory ==
    IF GenerateResult /\ result.outcome = "accepted"
    THEN SubSeq(signal_history, 1, Len(signal_history) - 1)
    ELSE signal_history

\* a step that is one generate_signal call
GenerateStep == calls' = calls + 1

----------------------------------------------------------------------------
(* Category rotation.                                                       *)

\* C1: the k-th generate_signal call since construction (k from 1) draws
\* from the category at position (k - 1) mod 4 of the fixed order, whatever
\* other operations (resets, cleanup, passing time) came in between.
C1_RoundRobin ==
    GenerateResult =>
        result.category =
            <<"currency_pairs", "cryptocurrencies", "otc_currency_pairs",
              "otc_cryptocurrencies">>[((calls - 1) % 4) + 1]

\* a sixth call, after a reset of the usage statistics, drew from the
\* second category
C1_Witness ==
    /\ GenerateResult
    /\ calls = 6
    /\ result.category = "cryptocurrencies"
    /\ usage_count["EUR/USD"] = 0

----------------------------------------------------------------------------
(* Cooldown.                                                                *)

\* the candidate's instrument has an accepted signal less than 10 minutes old
InCooldown ==
    \E i \in 1..Len(PriorHistory) :
        /\ PriorHistory[i].asset = Candidate.asset
        /\ now - PriorHistory[i].timestamp < 10 * 60

\* C2 as stated: a candidate validated less than 10 minutes after an
\* accepted signal for the same instrument is rejected with the cooldown
\* reason, whatever its confidence.
C2_CooldownAnyConfidence ==
    (Validated /\ InCooldown) =>
        (Refused /\ result.message = "Asset still in cooldown period")

\* C2: a candidate validated less than 10 minutes after an accepted signal
\* for the same instrument is always rejected; the reason is the cooldown
\* reason when its confidence is at least 65, and the confidence reason
\* when it is below 65.
C2_Cooldown ==
    (Validated /\ InCooldown) =>
        /\ Refused
        /\ result.message =
              IF Candidate.confidence >= 65 * One
              THEN "Asset still in cooldown period"
              ELSE "Signal confidence below minimum threshold"

\* a confident candidate was refused for cooldown although the newest
\* history entry belongs to another instrument
C2_Witness ==
    /\ ValidateResult
    /\ InCooldown
    /\ Candidate.confidence >= 65 * One
    /\ result.message = "Asset still in cooldown period"
    /\ signal_history[Len(signal_history)].asset # Candidate.asset

----------------------------------------------------------------------------
(* History bound.                                                           *)

\* C3: the history never holds more than 100 entries; an accepted signal
\* arriving at a full history drops the oldest entry and keeps the other 99
\* in their order, followed by the new one.
C3_HistoryBound ==
    [][ /\ Len(signal_history') <= 100
        /\ (GenerateStep /\ result'.outcome = "accepted" /\ Len(signal_history) = 100) =>
              /\ Len(signal_history') = 100
              /\ \A i \in 1..99 : signal_history'[i] = signal_history[i + 1]
              /\ signal_history'[100].asset = result'.asset
              /\ signal_history'[100].timestamp = now' ]_vars

\* the 101st accepted signal has pushed the first one out
C3_Witness ==
    /\ GenerateResult
    /\ result.outcome = "accepted"
    /\ generated_signals = 101
    /\ Len(signal_history) = 100
    /\ signal_history[1].asset = "BTC/USD"
    /\ signal_history[1].timestamp = 0

----------------------------------------------------------------------------
(* Gate order.                                                              *)

\* the seven gates in the order validate_signal applies them
Gates(signal_data, history, accuracy, t) ==
    << [pass |-> _check_minimum_confidence(signal_data),
        reason |-> "Signal confidence below minimum threshold"],
       [pass |-> _check_asset_cooldown(signal_data, history, t),
        reason |-> "Asset still in cooldown period"],
       [pass |-> _check_signal_frequency(signal_data, history, t),
        reason |-> "Too many signals for this asset recently"],
       [pass |-> _check_indicator_agreement(signal_data),
        reason |-> "Insufficient indicator agreement"],
       [pass |-> _check_trend_confirmation(signal_data),
        reason |-> "Trend confirmation failed"],
       [pass |-> _check_signal_quality(signal_data),
        reason |-> "Signal quality below standards"],
       [pass |-> _check_historical_accuracy(signal_data, accuracy),
        reason |-> "Asset historical accuracy below threshold"] >>

\* C4: validation applies the gates in the order confidence, cooldown,
\* frequency, indicator agreement, trend confirmation, quality, historical
\* accuracy; the reason reported is that of the first failing gate, and a
\* candidate is valid only if all seven pass.
C4_GateOrder ==
    Validated =>
        LET gates == Gates(Candidate, PriorHistory, accuracy_tracker, now)
            failing == {i \in 1..Len(gates) : ~gates[i].pass}
        IN  IF failing = {}
            THEN Passed /\ result.message = "Signal validated successfully"
            ELSE /\ Refused
                 /\ result.message =
                        gates[CHOOSE i \in failing : \A j \in failing : i <= j].reason

\* the frequency reason was reported for a candidate that also fails the
\* indicator and the accuracy gate
C4_Witness ==
    /\ ValidateResult
    /\ result.message = "Too many signals for this asset recently"
    /\ ~_check_indicator_agreement(Candidate)
    /\ ~_check_historical_accuracy(Candidate, accuracy_tracker)

----------------------------------------------------------------------------
(* Frequency cap.                                                           *)

\* the entries of the instrument in history that are less than an hour old
WithinHour(asset, history) ==
    {i \in 1..Len(history) :
        history[i].asset = asset /\ history[i].timestamp > now - 60 * 60}

\* C5: no instrument ever has more than 5 accepted signals in the trailing
\* hour of the history, and a candidate whose instrument already has 5 or
\* more is not accepted.
C5_FrequencyCap ==
    /\ \A a \in AllAssets : Cardinality(WithinHour(a, signal_history)) <= 5
    /\ (Validated /\ Cardinality(WithinHour(Candidate.asset, PriorHistory)) >= 5)
            => Refused

\* a generate_signal call was turned down by the frequency gate
C5_Witness ==
    /\ GenerateResult
    /\ Cardinality(WithinHour(result.asset, signal_history)) = 5
    /\ result.message = "Too many signals for this asset recently"

----------------------------------------------------------------------------
(* Historical accuracy gate.                                                *)

\* the outcomes recorded for the instrument: all of them, and the correct ones
Outcomes(asset) ==
    IF asset \in DOMAIN accuracy_tracker
    THEN accuracy_tracker[asset]
    ELSE [total |-> 0, correct |-> 0]

\* C6: an instrument with 0 to 9 recorded outcomes never fails the
\* historical-accuracy gate; one with 10 or more outcomes of which fewer than
\* 70% are correct always fails it, and with the accuracy reason when the six
\* earlier gates pass; at exactly 70% or above it passes the gate.
C6_AccuracyGate ==
    Validated =>
        LET recorded == Outcomes(Candidate.asset)
            gates == Gates(Candidate, PriorHistory, accuracy_tracker, now)
            below == 100 * recorded.correct < 70 * recorded.total
            reason == "Asset historical accuracy below threshold"
        IN  /\ recorded.total <= 9 => result.message # reason
            /\ (recorded.total >= 10 /\ below) =>
                  /\ Refused
                  /\ (\A i \in 1..6 : gates[i].pass) => result.message = reason
            /\ (recorded.total >= 10 /\ ~below) => result.message # reason

\* a candidate was refused for accuracy on the tenth recorded outcome
C6_Witness ==
    /\ ValidateResult
    /\ Outcomes(Candidate.asset).total = 10
    /\ Outcomes(Candidate.asset).correct = 6
    /\ result.message = "Asset historical accuracy below threshold"

----------------------------------------------------------------------------
(* Instrument selection.                                                    *)

\* the instrument was selected within the trailing 30 minutes
RecentlySelected(asset) ==
    last_used[asset] # NoTime /\ now - last_used[asset] <= 30 * 60

\* C7: the instrument a call returns belongs to the category chosen for the
\* call, and it was selected within the trailing 30 minutes only if every
\* instrument of that category was.
C7_Selection ==
    [][ GenerateStep =>
          /\ result'.category = category_rotation[current_rotation_index + 1]
          /\ result'.asset \in Range(assets[result'.category])
          /\ RecentlySelected(result'.asset) =>
                \A a \in Range(assets[result'.category]) : RecentlySelected(a) ]_vars

\* a call on the two currency pairs found both recently selected and
\* returned one of them
C7_Witness ==
    /\ GenerateResult
    /\ result.reset
    /\ result.category = "currency_pairs"
    /\ \A a \in Range(assets["currency_pairs"]) : usage_count[a] >= 2

\* C8: the weight max(1, 10 - usage_count) is at least 1 and does not grow
\* with the usage count, and every instrument of the category of the next
\* call that was never selected or was last selected more than 30 minutes
\* ago can be returned by that call, however high its usage count.
C8_Selectable ==
    /\ \A a \in AllAssets :
          /\ Weight(usage_count[a]) >= 1
          /\ Weight(usage_count[a] + 1) <= Weight(usage_count[a])
    /\ \A a \in Range(assets[category_rotation[current_rotation_index + 1]]) :
          ~RecentlySelected(a) => a \in Selectable(State)

\* an instrument selected more than ten times before, and not within the
\* last 30 minutes, was returned from a pool that was not reset
C8_Witness ==
    /\ GenerateResult
    /\ ~result.reset
    /\ usage_count[result.asset] > 11

\* C9: a call adds 1 to the usage count of the returned instrument and sets
\* its last-selected time to the time of the selection; the other
\* instruments' counts and times and the accuracy records stay as they
\* were, and the selection itself leaves the signal history untouched.
C9_SelectionFrame ==
    [][ GenerateStep =>
          LET selected == get_next_asset(State, result'.asset)
          IN  /\ usage_count' =
                    [usage_count EXCEPT ![result'.asset] = usage_count[result'.asset] + 1]
              /\ last_used' = [last_used EXCEPT ![result'.asset] = now]
              /\ accuracy_tracker' = accuracy_tracker
              /\ selected.usage_count = usage_count'
              /\ selected.last_used = last_used'
              /\ selected.signal_history = signal_history
              /\ selected.accuracy_tracker = accuracy_tracker ]_vars

\* a call returned an instrument used before, with signals in the history
\* and outcomes in the accuracy records
C9_Witness ==
    /\ GenerateResult
    /\ usage_count[result.asset] >= 2
    /\ last_used[result.asset] > 0
    /\ signal_history # <<>>
    /\ DOMAIN accuracy_tracker # {}

----------------------------------------------------------------------------
(* Recording of accepted signals.                                           *)

\* C10: a candidate that passes all gates is in the history, as its newest
\* entry, when the call returns it; a call that ends without a candidate or
\* with a rejected one returns nothing and leaves the history as it was.
C10_Recorded ==
    [][ GenerateStep =>
          LET gates == Gates(result'.arg[1], signal_history, accuracy_tracker, now')
              accepted == result'.arg # <<>> /\ \A i \in 1..Len(gates) : gates[i].pass
          IN  IF accepted
              THEN /\ result'.ret = result'.arg
                   /\ signal_history' # <<>>
                   /\ signal_history'[Len(signal_history')] =
                        [asset |-> result'.ret[1].asset,
                         direction |-> result'.ret[1].direction,
                         confidence |-> result'.ret[1].confidence,
                         timestamp |-> now',
                         expiration_time |-> result'.ret[1].expiration_time]
                   /\ SubSeq(signal_history', 1, Len(signal_history') - 1) =
                        IF Len(signal_history) = 100
                        THEN Tail(signal_history) ELSE signal_history
              ELSE /\ result'.ret = <<>>
                   /\ signal_history' = signal_history ]_vars

\* a call returned a signal that follows older entries in the history
C10_Witness ==
    /\ GenerateResult
    /\ result.ret # <<>>
    /\ Len(signal_history) >= 2
    /\ signal_history[Len(signal_history)].asset = result.asset
    /\ signal_history[Len(signal_history) - 1].asset # result.asset

----------------------------------------------------------------------------
(* Fusion and confidence as functions of the Analysis.  The initial states  *)
(* hold one Analysis each, drawn from a grid of votes, strengths and        *)
(* overall confidences; the steps apply _determine_signal_direction and     *)
(* then, as _create_signal_from_analysis does for a direction that is not   *)
(* NEUTRAL, _calculate_signal_confidence.  On this grid the source's        *)
(* floating-point results equal the exact ones computed here.               *)

\* trend strength, sentiment confidence, pattern confidence: 0, 0.25, 0.4, 0.5, 1
Strengths == {0, One \div 4, (2 * One) \div 5, One \div 2, One}

\* overall_confidence: 0, 0.02, 0.1, 0.3, 0.4, 0.5, 0.65, 0.9, 1
OverallConfidences ==
    {0, One \div 50, One \div 10, (3 * One) \div 10, (2 * One) \div 5, One \div 2,
     (13 * One) \div 20, (9 * One) \div 10, One}

FusionInputs ==
    {Analysis(tsig, tstr, scat, sconf, IF psig = "NEUTRAL" THEN "" ELSE "hammer",
              psig, pconf, Indicators("NEUTRAL", "NEUTRAL", "NEUTRAL"), overall) :
        tsig \in {"BUY", "SELL", "NEUTRAL"}, tstr \in Strengths,
        scat \in {"BULLISH", "BEARISH", "NEUTRAL"}, sconf \in Strengths,
        psig \in {"BUY", "SELL", "NEUTRAL"}, pconf \in Strengths,
        overall \in OverallConfidences}

InitFusion ==
    \E analysis \in FusionInputs :
        Is([Constructed EXCEPT
                !.result = Result("analyze_asset", "", "", FALSE, "", "", <<analysis>>, <<>>)])

DetermineSignalDirection ==
    /\ result.op = "analyze_asset"
    /\ \E analysis \in {result.arg[1]} :
          /\ result' = Result("_determine_signal_direction", "", "", FALSE,
                              _determine_signal_direction(analysis.trend,
                                  analysis.sentiment, analysis.patterns),
                              "", <<analysis>>, <<>>)
          /\ UNCHANGED <<now, current_rotation_index, last_used, usage_count,
                         signal_history, accuracy_tracker, generated_signals,
                         validated_signals, calls, origin, bot>>

CalculateSignalConfidence ==
    /\ result.op = "_determine_signal_direction"
    /\ result.outcome # "NEUTRAL"
    /\ \E analysis \in {result.arg[1]} :
          /\ result' = Result("_calculate_signal_confidence", "", "", FALSE,
                              result.outcome, "", <<analysis>>,
                              <<_calculate_signal_confidence(analysis, result.outcome)>>)
          /\ UNCHANGED <<now, current_rotation_index, last_used, usage_count,
                         signal_history, accuracy_tracker, generated_signals,
                         validated_signals, calls, origin, bot>>

\* SignalGenerator._generate_entry_reasoning: the reasoning_parts, in
\* order (the text returned joins them with a bullet).  trend.direction
\* is what _analyze_trend sets with trend.signal; indicators are read in
\* the mapping's order.
_generate_entry_reasoning(analysis, signal_direction) ==
    LET Lower(word) == CASE word = "BULLISH" -> "bullish"
                         [] word = "BEARISH" -> "bearish"
                         [] word = "SIDEWAYS" -> "sideways"
                         [] OTHER -> ""
        Title(name) == CASE name = "hammer" -> "Hammer"
                         [] name = "shooting_star" -> "Shooting Star"
                         [] OTHER -> name
        direction == CASE analysis.trend.signal = "BUY" -> "BULLISH"
                       [] analysis.trend.signal = "SELL" -> "BEARISH"
                       [] OTHER -> "SIDEWAYS"
        trend_part ==
            IF analysis.trend.signal # signal_direction THEN <<>>
            ELSE IF 10 * analysis.trend.strength > 7 * One
            THEN <<"Strong " \o Lower(direction) \o " trend">>
            ELSE <<"Moderate " \o Lower(direction) \o " trend">>
        pattern_part ==
            IF analysis.patterns.signal = signal_direction /\ analysis.patterns.pattern # ""
            THEN <<Title(analysis.patterns.pattern) \o " pattern detected">>
            ELSE <<>>
        Supports(name) == analysis.indicators[name].signal = signal_direction
        supporting_indicators == SelectSeq(<<"RSI", "MACD", "BOLLINGER">>, Supports)
        indicator_part ==
            IF supporting_indicators = <<>> THEN <<>>
            ELSE IF Len(supporting_indicators) > 2
            THEN <<"Multiple indicators (" \o supporting_indicators[1] \o ", "
                     \o supporting_indicators[2] \o "+) support direction">>
            ELSE IF Len(supporting_indicators) = 2
            THEN <<supporting_indicators[1] \o ", " \o supporting_indicators[2]
                     \o " support direction">>
            ELSE <<supporting_indicators[1] \o " support direction">>
        sentiment_part ==
            IF analysis.sentiment.category = "NEUTRAL" THEN <<>>
            ELSE IF 10 * analysis.sentiment.confidence > 7 * One
            THEN <<"Strong " \o Lower(analysis.sentiment.category) \o " sentiment">>
            ELSE <<"Moderate " \o Lower(analysis.sentiment.category) \o " sentiment">>
    IN  trend_part \o pattern_part \o indicator_part \o sentiment_part

\* _generate_entry_reasoning applied to the analysis and the direction
\* found, for a confidence that passes the floor
GenerateEntryReasoning ==
    /\ result.op = "_calculate_signal_confidence"
    /\ result.ret[1] >= MINIMUM_CONFIDENCE * One
    /\ result' = Result("_generate_entry_reasoning", "", "", FALSE, result.outcome, "",
                        result.arg, _generate_entry_reasoning(result.arg[1], result.outcome))
    /\ UNCHANGED <<now, current_rotation_index, last_used, usage_count, signal_history,
                   accuracy_tracker, generated_signals, validated_signals, calls, origin, bot>>

\* _check_signal_quality applied to a signal_data holding the analysis
CheckSignalQuality ==
    /\ result.op = "analyze_asset"
    /\ result' = Result("_check_signal_quality", "", "", FALSE,
                        IF _check_signal_quality([analysis |-> result.arg[1]])
                        THEN "pass" ELSE "fail",
                        "", result.arg, <<>>)
    /\ UNCHANGED <<now, current_rotation_index, last_used, usage_count, signal_history,
                   accuracy_tracker, generated_signals, validated_signals, calls, origin, bot>>

NextFusion ==
    \/ DetermineSignalDirection
    \/ CalculateSignalConfidence
    \/ GenerateEntryReasoning
    \/ CheckSignalQuality

SpecFusion == InitFusion /\ [][NextFusion]_vars

\* a direction has been decided for the Analysis in result.arg
DirectionResult == result.op = "_determine_signal_direction"

\* a confidence has been computed for the Analysis in result.arg
ConfidenceResult == result.op = "_calculate_signal_confidence"

\* the votes of an Analysis: side and weight (in units of 1/(100 * One)) of
\* trend, sentiment and pattern, side "" for a source that does not vote
Votes(analysis) ==
    << [side |-> IF analysis.trend.signal = "NEUTRAL" THEN "" ELSE analysis.trend.signal,
        weight |-> 40 * analysis.trend.strength],
       [side |-> IF analysis.sentiment.category = "BULLISH" THEN "BUY"
                 ELSE IF analysis.sentiment.category = "BEARISH" THEN "SELL" ELSE "",
        weight |-> 35 * analysis.sentiment.confidence],
       [side |-> IF analysis.patterns.signal = "NEUTRAL" THEN "" ELSE analysis.patterns.signal,
        weight |-> 25 * analysis.patterns.confidence] >>

\* the summed weight of the votes for a side
Summed(analysis, side) ==
    LET votes == Votes(analysis)
        W(i) == IF votes[i].side = side THEN votes[i].weight ELSE 0
    IN  W(1) + W(2) + W(3)

\* the number of sources that vote
Voting(analysis) ==
    Cardinality({i \in 1..3 : Votes(analysis)[i].side # ""})

\* the number of sources that vote for the side
Agreeing(analysis, side) ==
    Cardinality({i \in 1..3 : Votes(analysis)[i].side = side})

----------------------------------------------------------------------------
(* Direction.                                                               *)

\* C11: with no vote the direction is NEUTRAL; otherwise a side that leads
\* by more than 0.05 wins; otherwise, the larger sum being above 0.2, the
\* larger side wins; otherwise, a sum being nonzero, the larger side wins;
\* otherwise the direction is NEUTRAL.  The side with the strictly smaller
\* summed weight is never chosen.
C11_DirectionRules ==
    DirectionResult =>
        LET analysis == result.arg[1]
            buy == Summed(analysis, "BUY")
            sell == Summed(analysis, "SELL")
            larger == IF buy > sell THEN {"BUY"}
                      ELSE IF sell > buy THEN {"SELL"} ELSE {"BUY", "SELL"}
        IN  /\ IF Voting(analysis) = 0 THEN result.outcome = "NEUTRAL"
               ELSE IF buy > sell + 5 * One THEN result.outcome = "BUY"
               ELSE IF sell > buy + 5 * One THEN result.outcome = "SELL"
               ELSE IF Max(buy, sell) > 20 * One THEN result.outcome \in larger
               ELSE IF buy # 0 \/ sell # 0 THEN result.outcome \in larger
               ELSE result.outcome = "NEUTRAL"
            /\ result.outcome = "BUY" => buy >= sell
            /\ result.outcome = "SELL" => sell >= buy

\* SELL was decided with 0.14 against 0.10: within the margin and under
\* the floor
C11_Witness ==
    /\ DirectionResult
    /\ result.outcome = "SELL"
    /\ Summed(result.arg[1], "SELL") = 14 * One
    /\ Summed(result.arg[1], "BUY") = 10 * One

\* C12 as stated: whenever the summed BUY weight equals the summed SELL
\* weight and both are nonzero, the direction is BUY.
C12_TieToBuy ==
    (/\ DirectionResult
     /\ Summed(result.arg[1], "BUY") = Summed(result.arg[1], "SELL")
     /\ Summed(result.arg[1], "BUY") # 0)
        => result.outcome = "BUY"

\* C13: when trend, sentiment and pattern all vote BUY with positive weight
\* the direction is BUY, and at the same overall_confidence the confidence
\* with all three sources agreeing is at least the confidence with one of
\* three voting sources agreeing.
C13_Agreement ==
    /\ (/\ DirectionResult
        /\ Agreeing(result.arg[1], "BUY") = 3
        /\ \A i \in 1..3 : Votes(result.arg[1])[i].weight > 0)
          => result.outcome = "BUY"
    /\ (ConfidenceResult /\ Agreeing(result.arg[1], result.outcome) = 3) =>
          \A tsig \in {"BUY", "SELL"}, scat \in {"BULLISH", "BEARISH"},
             psig \in {"BUY", "SELL"} :
                LET other ==
                        Analysis(tsig, One, scat, One, "hammer", psig, One,
                                 Indicators("NEUTRAL", "NEUTRAL", "NEUTRAL"),
                                 result.arg[1].confidence_factors.overall_confidence)
                IN  Agreeing(other, result.outcome) = 1 =>
                        result.ret[1] >=
                            _calculate_signal_confidence(other, result.outcome)

\* three BUY votes at overall_confidence 0.3 gave BUY with confidence 40,
\* where one agreeing source of three gives less
C13_Witness ==
    /\ ConfidenceResult
    /\ result.outcome = "BUY"
    /\ Agreeing(result.arg[1], "BUY") = 3
    /\ result.ret[1] = 40 * One
    /\ _calculate_signal_confidence(
            Analysis("BUY", One, "BEARISH", One, "hammer", "SELL", One,
                     Indicators("NEUTRAL", "NEUTRAL", "NEUTRAL"),
                     result.arg[1].confidence_factors.overall_confidence), "BUY")
          < 40 * One

----------------------------------------------------------------------------
(* Confidence.                                                              *)

----------------------------------------------------------------------------
(* No signal without a direction and the minimum confidence.                *)

\* the Analysis gives no direction or a confidence under the minimum of 65
Weak(analysis) ==
    LET direction ==
            _determine_signal_direction(analysis.trend, analysis.sentiment, analysis.patterns)
    IN  \/ direction = "NEUTRAL"
        \/ _calculate_signal_confidence(analysis, direction) < 65 * One

\* C16: no signal is recorded, validated or returned with direction NEUTRAL
\* or a confidence under 65, and a generate_signal call whose Analysis gives
\* direction NEUTRAL or a confidence under 65 ends with no signal and
\* leaves the history as it is.
C16_NoWeakSignal ==
    /\ \A i \in 1..Len(signal_history) :
          /\ signal_history[i].direction \in {"BUY", "SELL"}
          /\ signal_history[i].confidence >= 65 * One
    /\ (GenerateResult /\ Validated) =>
          /\ Candidate.direction \in {"BUY", "SELL"}
          /\ Candidate.confidence >= 65 * One
    /\ \A asset \in Selectable(State), analysis \in Analyses :
          Weak(analysis) =>
              LET after == generate_signal(State, asset, analysis, 0)
              IN  /\ after.result.outcome = "no_signal"
                  /\ after.result.arg = <<>>
                  /\ after.result.ret = <<>>
                  /\ after.signal_history = signal_history

\* a call ended with no signal while the history holds accepted ones
C16_Witness ==
    /\ GenerateResult
    /\ result.outcome = "no_signal"
    /\ result.ret = <<>>
    /\ signal_history # <<>>
    /\ \E analysis \in Analyses : Weak(analysis)


----------------------------------------------------------------------------
(* MarketAnalyzer.analyze_asset over MarketDataFetcher: what the market-   *)
(* data service answers (fetch), whether the indicator arithmetic raises   *)
(* (math_error), and the values the computations yield when they succeed   *)
(* (content) are the inputs.                                               *)

\* lengths of the price series the service returns
Bars == {0, 9, 10, 19, 20, 60}

\* ticker.history raises, or returns a series of so many bars
Fetches ==
    {[raised |-> TRUE, bars |-> 0]} \cup {[raised |-> FALSE, bars |-> n] : n \in Bars}

\* the values a completed analysis can hold
Contents == {AnalysisBuy, AnalysisNeutral}

\* the analysis with its data_source entry
Tagged(content, source) == [data_source |-> source] @@ content

\* variant: a series of fewer than 10 bars is returned as it is
get_real_time_data_any_length(fetch) ==
    IF fetch.raised \/ fetch.bars = 0 THEN <<>> ELSE <<fetch.bars>>

\* MarketDataFetcher.get_real_time_data: <<>> is None, <<n>> a series of n bars
get_real_time_data(fetch) ==
    IF fetch.raised THEN <<>>
    ELSE IF fetch.bars = 0 THEN <<>>
    ELSE IF fetch.bars < 10 THEN <<>>
    ELSE <<fetch.bars>>

\* MarketDataFetcher.calculate_technical_indicators: <<>> is the empty mapping
calculate_technical_indicators(data, math_error, content) ==
    IF data = 0 \/ data < 20 THEN <<>>
    ELSE IF math_error THEN <<>>
    ELSE content.indicators

\* MarketAnalyzer._analyze_trend divides by len(signals): it raises
\* ZeroDivisionError on an empty mapping
_analyze_trend_raises(indicators) == DOMAIN indicators = {}

\* MarketAnalyzer._analyze_asset_fallback: the simulated indicators are
\* never empty
_analyze_asset_fallback(content) == Tagged(content, "simulated_data")

\* MarketAnalyzer.analyze_asset; an exception leaves it as a raised record
analyze_asset(fetch, math_error, content) ==
    LET market_data == get_real_time_data(fetch)
    IN  IF market_data = <<>>
        THEN _analyze_asset_fallback(content)
        ELSE IF _analyze_trend_raises(
                    calculate_technical_indicators(market_data[1], math_error, content))
        THEN Tagged(AnalysisError, "")
        ELSE Tagged(content, "real_market_data")

\* a direct call of analyze_asset; arg holds the inputs, ret what came back
AnalyzeAsset ==
    /\ \E asset \in AllAssets, fetch \in Fetches, math_error \in BOOLEAN, content \in Contents :
          \E analysis \in {analyze_asset(fetch, math_error, content)} :
             result' = Result("analyze_asset", asset, "", FALSE,
                              IF analysis.raised THEN "raised" ELSE analysis.data_source,
                              "", <<[fetch |-> fetch, math_error |-> math_error]>>,
                              <<analysis>>)
    /\ UNCHANGED <<now, current_rotation_index, last_used, usage_count, signal_history,
                   accuracy_tracker, generated_signals, validated_signals, calls, origin, bot>>

\* generate_signal with the analyzer's inputs spelled out
GenerateSignalFetching ==
    /\ calls < MaxCalls
    /\ \E asset \in Selectable(State), fetch \in Fetches, math_error \in BOOLEAN,
          content \in Contents :
          \E analysis \in {analyze_asset(fetch, math_error, content)} :
             Becomes(generate_signal(State, asset, analysis, 0))

InitAnalyzer == Is(Constructed)

NextAnalyzer == AnalyzeAsset \/ GenerateSignalFetching

SpecAnalyzer == InitAnalyzer /\ [][NextAnalyzer]_vars

\* the last operation was a direct analyze_asset call
AnalyzeResult ==
    /\ result.op = "analyze_asset"
    /\ result.arg # <<>>
    /\ result.ret # <<>>

\* the service gave no usable series: it raised, or returned under 10 bars
NoData(fetch) == fetch.raised \/ fetch.bars < 10

\* a series was fetched, and the indicator computation gave an empty mapping
EmptyIndicators(fetch, math_error) ==
    /\ ~NoData(fetch)
    /\ fetch.bars < 20 \/ math_error


\* C17: when a series is fetched and the indicator computation yields an
\* empty mapping (fewer than 20 bars, or an error in the arithmetic),
\* analyze_asset does not fail: it returns a complete Analysis tagged
\* simulated_data.
C17_EmptyIndicatorsFallBack ==
    (AnalyzeResult /\ EmptyIndicators(result.arg[1].fetch, result.arg[1].math_error))
        => /\ ~result.ret[1].raised
           /\ result.ret[1].data_source = "simulated_data"

\* C18: when the fetch fails, returns nothing or returns fewer than 10
\* bars, analyze_asset returns an Analysis tagged simulated_data; an
\* Analysis computed from a fetched series is tagged real_market_data; an
\* exception of analyze_asset never comes from a failed fetch, and a
\* generation cycle whose fetch fails does not end as an internal error.
C18_FetchFailureSimulated ==
    /\ AnalyzeResult =>
          LET fetch == result.arg[1].fetch
              analysis == result.ret[1]
          IN  /\ NoData(fetch) =>
                    ~analysis.raised /\ analysis.data_source = "simulated_data"
              /\ (~NoData(fetch) /\ ~analysis.raised) =>
                    analysis.data_source = "real_market_data"
              /\ analysis.raised => ~NoData(fetch)
              /\ ~analysis.raised =>
                    analysis.data_source \in {"simulated_data", "real_market_data"}
    /\ \A asset \in Selectable(State), fetch \in Fetches, math_error \in BOOLEAN,
          content \in Contents :
          NoData(fetch) =>
             generate_signal(State, asset, analyze_asset(fetch, math_error, content), 0)
                 .result.outcome # "error"

\* a series of 9 bars was answered with a simulated Analysis
C18_Witness ==
    /\ AnalyzeResult
    /\ ~result.arg[1].fetch.raised
    /\ result.arg[1].fetch.bars = 9
    /\ result.outcome = "simulated_data"
    /\ calls > 0


\* the call ended without a signal: no candidate, a refused candidate, or
\* an exception
NonSignal(r) == r.op = "generate_signal" /\ r.outcome \in {"no_signal", "rejected", "error"}

\* C19: the caller of generate_signal can tell the three outcomes without
\* a signal apart: of two calls in a row that ended in different ones, the
\* returned values differ.
C19_OutcomesToldApart ==
    [][(GenerateStep /\ NonSignal(result) /\ NonSignal(result')
            /\ result.outcome # result'.outcome)
          => result.ret # result'.ret]_vars


----------------------------------------------------------------------------
(* TradingBot: the handlers that call generate_signal are coroutines on    *)
(* one event loop.  A coroutine runs until its next await, so each action  *)
(* below is the code between two awaits; generate_signal is an ordinary    *)
(* call, made between the await of the "Generating..." message and the     *)
(* await of the answer.                                                    *)

\* AlertManager._validate_settings, for the settings /setalert confidence
\* and /setalert maxhour send
_validate_settings(settings) ==
    /\ "min_confidence" \in DOMAIN settings =>
          ~(settings.min_confidence < 50 \/ settings.min_confidence > 100)
    /\ "max_signals_per_hour" \in DOMAIN settings =>
          ~(settings.max_signals_per_hour < 1 \/ settings.max_signals_per_hour > 20)

\* AlertManager.update_user_settings: the stored settings afterwards
update_user_settings(current_settings, settings) ==
    IF ~_validate_settings(settings) THEN current_settings
    ELSE [k \in DOMAIN current_settings |->
            IF k \in DOMAIN settings THEN settings[k] ELSE current_settings[k]]

\* AlertManager.should_send_alert; permitted: the instrument passes the
\* user's asset lists and the clock is within the alert hours on an
\* allowed day
should_send_alert(settings, signal_data, permitted) ==
    IF ~settings.enabled THEN FALSE
    ELSE IF signal_data.confidence < settings.min_confidence * One THEN FALSE
    ELSE IF signal_data.direction \notin settings.signal_types THEN FALSE
    ELSE permitted

\* TradingBot.set_alert_command: /setalert confidence <n>, /setalert maxhour <n>
set_alert_command(s, settings) ==
    [s EXCEPT !.bot.user_alerts = update_user_settings(s.bot.user_alerts, settings),
              !.result = NoResult]

\* get_signal_command / _handle_signal_callback up to the first await: the
\* "Generating Trading Signal..." message is being sent
signal_requested(s, h) ==
    [s EXCEPT !.bot.handlers[h] =
                  [pc |-> "generating", requested |-> s.bot.served, ticket |-> 0,
                   category |-> "", signal_data |-> <<>>, seen |-> Seen(s)],
              !.result = NoResult]

\* variant: the pipeline works on the generator as it was when the request
\* came in
signal_generated_stale(s, h, asset, analysis, permitted) ==
    LET seen == s.bot.handlers[h].seen
        stale == [s EXCEPT !.current_rotation_index = seen.current_rotation_index,
                           !.last_used = seen.last_used,
                           !.usage_count = seen.usage_count,
                           !.signal_history = seen.signal_history]
        drawn == IF asset \in Selectable(stale) THEN asset ELSE FirstSelectable(stale)
        after == generate_signal(stale, drawn, analysis, 0)
    IN  [after EXCEPT !.bot.served = s.bot.served + 1,
                      !.bot.handlers[h].pc = "replying",
                      !.bot.handlers[h].ticket = s.bot.served + 1,
                      !.bot.handlers[h].category = after.result.category,
                      !.bot.handlers[h].signal_data = after.result.ret,
                      !.bot.delivered =
                          IF /\ after.result.ret # <<>>
                             /\ should_send_alert(s.bot.user_alerts, after.result.ret[1], permitted)
                          THEN Append(s.bot.delivered,
                                      [signal_data |-> after.result.ret[1],
                                       settings |-> s.bot.user_alerts])
                          ELSE s.bot.delivered]

\* from the first await to the next: the whole generate_signal call, then
\* the answer is being sent: the signal if should_send_alert allows it, a
\* notice otherwise
signal_generated(s, h, asset, analysis, permitted) ==
    LET after == generate_signal(s, asset, analysis, 0)
    IN  [after EXCEPT !.bot.served = s.bot.served + 1,
                      !.bot.handlers[h].pc = "replying",
                      !.bot.handlers[h].ticket = s.bot.served + 1,
                      !.bot.handlers[h].category = after.result.category,
                      !.bot.handlers[h].signal_data = after.result.ret,
                      !.bot.delivered =
                          IF /\ after.result.ret # <<>>
                             /\ should_send_alert(s.bot.user_alerts, after.result.ret[1], permitted)
                          THEN Append(s.bot.delivered,
                                      [signal_data |-> after.result.ret[1],
                                       settings |-> s.bot.user_alerts])
                          ELSE s.bot.delivered]

\* the answer was sent: the handler returns
signal_replied(s, h) ==
    [s EXCEPT !.bot.handlers[h].pc = "idle",
              !.result = NoResult]

\* the handlers suspended before their generate_signal call
Generating(s) == {h \in Handlers : s.bot.handlers[h].pc = "generating"}

RequestSignal ==
    \E h \in Handlers :
        /\ bot.handlers[h].pc = "idle"
        /\ calls + Cardinality(Generating(State)) < origin.calls + MaxCalls
        /\ Becomes(signal_requested(State, h))

GenerateForRequest ==
    \E h \in Generating(State), asset \in Selectable(State),
       analysis \in {AnalysisBuy, AnalysisModerate, AnalysisNeutral, AnalysisError},
       permitted \in BOOLEAN :
        Becomes(signal_generated(State, h, asset, analysis, permitted))

ReplySignal ==
    \E h \in Handlers :
        /\ bot.handlers[h].pc = "replying"
        /\ Becomes(signal_replied(State, h))

SetAlert ==
    \E settings \in {[min_confidence |-> 40], [min_confidence |-> 50],
                      [max_signals_per_hour |-> 0], [max_signals_per_hour |-> 1]} :
        Becomes(set_alert_command(State, settings))

InitBot == \E s \in {Constructed, Origin(AfterCooldown)} : Is(s)

NextBot ==
    \/ RequestSignal
    \/ GenerateForRequest
    \/ ReplySignal
    \/ Tick

SpecBot == InitBot /\ [][NextBot]_vars

\* the handlers together with the /setalert command, from construction
NextAlerts ==
    \/ RequestSignal
    \/ GenerateForRequest
    \/ ReplySignal
    \/ SetAlert

SpecAlerts == InitAnalyzer /\ [][NextAlerts]_vars

\* the handlers whose generate_signal call was made
Served == {h \in Handlers : bot.handlers[h].ticket > 0}

\* the handlers whose generate_signal call returned a signal
Answered == {h \in Served : bot.handlers[h].signal_data # <<>>}

\* h2 was already waiting when h1's generate_signal call was made, and its
\* own call came later
Concurrent(h1, h2) ==
    /\ h1 \in Served
    /\ h2 \in Served
    /\ bot.handlers[h2].requested < bot.handlers[h1].ticket
    /\ bot.handlers[h1].ticket < bot.handlers[h2].ticket

\* C20: the pipelines of concurrent requests do not interleave.  The n-th
\* generate_signal call of the handlers draws from the n-th category of
\* the rotation, counted from where the generator stood, so concurrent
\* requests take consecutive categories; no two calls share a turn; every
\* signal a handler was given is in the history; and no two signals given
\* to handlers, and no two entries of the history, are for the same
\* instrument less than 10 minutes apart.
C20_Serialized ==
    /\ \A h \in Served :
          bot.handlers[h].category =
              category_rotation[((origin.calls + bot.handlers[h].ticket - 1) % 4) + 1]
    /\ \A h1, h2 \in Served :
          /\ h1 # h2 => bot.handlers[h1].ticket # bot.handlers[h2].ticket
          /\ (Concurrent(h1, h2) /\ bot.handlers[h2].ticket = bot.handlers[h1].ticket + 1) =>
                \E k \in 1..4 :
                    /\ bot.handlers[h1].category = category_rotation[k]
                    /\ bot.handlers[h2].category = category_rotation[(k % 4) + 1]
    /\ \A h \in Answered :
          \E i \in 1..Len(signal_history) :
              /\ signal_history[i].asset = bot.handlers[h].signal_data[1].asset
              /\ signal_history[i].timestamp = bot.handlers[h].signal_data[1].generated_time
    /\ \A h1, h2 \in Answered :
          (h1 # h2 /\ bot.handlers[h1].signal_data[1].asset = bot.handlers[h2].signal_data[1].asset) =>
              \/ bot.handlers[h1].signal_data[1].generated_time
                    >= bot.handlers[h2].signal_data[1].generated_time + 10 * 60
              \/ bot.handlers[h2].signal_data[1].generated_time
                    >= bot.handlers[h1].signal_data[1].generated_time + 10 * 60
    /\ \A i, j \in 1..Len(signal_history) :
          (i < j /\ signal_history[i].asset = signal_history[j].asset) =>
              signal_history[j].timestamp >= signal_history[i].timestamp + 10 * 60

\* two requests were waiting together and were served one after the other
\* from consecutive categories; the second call was refused because its
\* instrument is in cooldown
C20_Witness ==
    \E h1, h2 \in Served :
        /\ Concurrent(h1, h2)
        /\ bot.handlers[h1].requested = bot.handlers[h2].requested
        /\ bot.handlers[h2].ticket = bot.handlers[h1].ticket + 1
        /\ bot.handlers[h1].pc = "replying"
        /\ bot.handlers[h2].pc = "replying"
        /\ bot.handlers[h1].category = "cryptocurrencies"
        /\ bot.handlers[h2].category = "otc_currency_pairs"
        /\ h2 \notin Answered
        /\ GenerateResult
        /\ result.asset = "USD/TRY"
        /\ result.message = "Asset still in cooldown period"


----------------------------------------------------------------------------
(* Accuracy records.                                                       *)

\* C21: the accuracy records change only through update_accuracy.  A step
\* that is a generate_signal call (with its validate_signal and
\* record_signal), a direct validate_signal call, a cleanup that drops
\* entries or a clock advance leaves every record as it was; a step that
\* changes the records adds 1 to one instrument's total and 0 or 1 to its
\* correct count and leaves the other instruments' records alone; and
\* update_accuracy(asset, was_correct) adds 1 to the instrument's total,
\* 1 to its correct count exactly when was_correct, and nothing elsewhere.
C21_AccuracyFrame ==
    /\ [](\A asset \in AllAssets, was_correct \in BOOLEAN :
              LET after == update_accuracy(accuracy_tracker, asset, was_correct)
              IN  /\ DOMAIN after = DOMAIN accuracy_tracker \cup {asset}
                  /\ after[asset].total = Outcomes(asset).total + 1
                  /\ after[asset].correct =
                        Outcomes(asset).correct + (IF was_correct THEN 1 ELSE 0)
                  /\ \A other \in DOMAIN after \ {asset} :
                        after[other] = accuracy_tracker[other])
    /\ [][ /\ (\/ GenerateStep
               \/ result'.op = "validate_signal"
               \/ signal_history' # signal_history
               \/ now' # now)
              => accuracy_tracker' = accuracy_tracker
           /\ accuracy_tracker' # accuracy_tracker =>
                 \E asset \in AllAssets :
                     /\ Outcomes(asset)'.total = Outcomes(asset).total + 1
                     /\ Outcomes(asset)'.correct - Outcomes(asset).correct \in {0, 1}
                     /\ \A other \in AllAssets \ {asset} :
                           Outcomes(other)' = Outcomes(other) ]_vars

\* a generate_signal call was made after the tenth outcome of "BTC/USD",
\* an incorrect one, and the records are still 10 and 6
C21_Witness ==
    /\ GenerateResult
    /\ calls = origin.calls + 1
    /\ Updates(State) = origin.updates + 1
    /\ Outcomes("BTC/USD") = [total |-> 10, correct |-> 6]
    /\ Outcomes("USD/TRY").total = 0


----------------------------------------------------------------------------
(* Expiry.  _create_signal_from_analysis reads the clock twice: line 89    *)
(* (timezone_handler.now()) and, inside get_expiration_time, line 90.  The *)
(* operations above take both readings as the same instant; here the       *)
(* clock may advance between them.                                         *)

\* by how much the clock advances between the two readings
ClockAdvances == {0, 1}

\* TimezoneHandler.get_expiration_time: clock is its own reading, self.now()
get_expiration_time(clock, minutes) == clock + minutes * 60

\* _create_signal_from_analysis with its two readings told apart:
\* current_time is the first, later the one get_expiration_time makes
_create_signal_from_analysis_reading(asset, category, analysis, current_time, later) ==
    LET created == _create_signal_from_analysis(asset, category, analysis, current_time)
    IN  IF created = <<>> THEN <<>>
        ELSE <<[created[1] EXCEPT
                  !.expiration_time = get_expiration_time(later, SIGNAL_EXPIRATION_MINUTES)]>>

\* a call of _create_signal_from_analysis during which the clock advances
CreateSignalFromAnalysis ==
    \E asset \in AllAssets, analysis \in Analyses, skew \in ClockAdvances :
        \E created \in {_create_signal_from_analysis_reading(asset, "", analysis,
                                                              now, now + skew)} :
            /\ now + skew <= origin.now + MaxTime
            /\ now' = now + skew
            /\ result' = Result("_create_signal_from_analysis", asset, "", FALSE,
                                IF created = <<>> THEN "none" ELSE "signal", "",
                                <<>>, created)
            /\ UNCHANGED <<current_rotation_index, last_used, usage_count, signal_history,
                           accuracy_tracker, generated_signals, validated_signals, calls,
                           origin, bot>>

NextExpiry == CreateSignalFromAnalysis \/ Tick

SpecExpiry == InitAnalyzer /\ [][NextExpiry]_vars

\* the last operation was a _create_signal_from_analysis call that returned
\* a signal
CreatedSignal ==
    /\ result.op = "_create_signal_from_analysis"
    /\ result.ret # <<>>

\* C22: every signal created has expiration_time = generated_time + 3
\* minutes exactly, also when the clock advances during its creation.
C22_ExpiryExact ==
    CreatedSignal =>
        result.ret[1].expiration_time =
            result.ret[1].generated_time + SIGNAL_EXPIRATION_MINUTES * 60


----------------------------------------------------------------------------
(* Indicator readings.  Raw indicator values are integers (RSI, %K, %R,    *)
(* CCI, prices) or fixed-point numbers (MACD lines); a reading is its      *)
(* signal and its strength, the strength in units of 1/One.                *)

\* one entry of the mapping MarketDataFetcher.calculate_technical_indicators
\* returns, from the raw value(s) it is computed from
calculate_technical_indicators_entry(name, raw) ==
    CASE name = "RSI" ->
           [signal |-> IF raw[1] < 30 THEN "BUY" ELSE IF raw[1] > 70 THEN "SELL" ELSE "NEUTRAL",
            strength |-> (Max(raw[1] - 50, 50 - raw[1]) * One) \div 50]
      [] name = "MACD" ->          \* raw: macd_line, signal_line
           [signal |-> IF raw[1] > raw[2] THEN "BUY" ELSE "SELL",
            strength |-> Max(raw[1] - raw[2], raw[2] - raw[1])]
      [] name = "BOLLINGER" ->     \* raw: upper_band, middle_band, lower_band, current_price
           [signal |-> IF raw[4] < raw[3] THEN "BUY"
                       ELSE IF raw[4] > raw[1] THEN "SELL" ELSE "NEUTRAL",
            strength |-> (Max(raw[4] - raw[2], raw[2] - raw[4]) * One) \div (raw[1] - raw[3])]
      [] name = "STOCHASTIC" ->    \* raw: k_value
           [signal |-> IF raw[1] < 20 THEN "BUY" ELSE IF raw[1] > 80 THEN "SELL" ELSE "NEUTRAL",
            strength |-> (Max(raw[1] - 50, 50 - raw[1]) * One) \div 50]
      [] name = "WILLIAMS_R" ->
           [signal |-> IF raw[1] < -80 THEN "BUY" ELSE IF raw[1] > -20 THEN "SELL" ELSE "NEUTRAL",
            strength |-> (Max(raw[1] + 50, -50 - raw[1]) * One) \div 50]
      [] name = "CCI" ->
           [signal |-> IF raw[1] < -100 THEN "BUY" ELSE IF raw[1] > 100 THEN "SELL" ELSE "NEUTRAL",
            strength |-> Min((Max(raw[1], -raw[1]) * One) \div 200, One)]
      [] name = "SMA" ->           \* raw: sma_20, sma_50
           [signal |-> IF raw[1] > raw[2] THEN "BUY" ELSE "SELL",
            strength |-> (Max(raw[1] - raw[2], raw[2] - raw[1]) * One) \div raw[2]]

\* one entry of the mapping MarketAnalyzer._generate_technical_indicators
\* returns; the thresholds are those of TECHNICAL_INDICATORS, and
\* "band_width * 0.8" is 4 * band_width / 5
_generate_technical_indicators_entry(name, raw) ==
    CASE name = "RSI" ->
           [signal |-> IF raw[1] < 30 THEN "BUY" ELSE IF raw[1] > 70 THEN "SELL" ELSE "NEUTRAL",
            strength |-> (Max(raw[1] - 50, 50 - raw[1]) * One) \div 50]
      [] name = "MACD" ->          \* raw: macd_line, signal_line
           [signal |-> IF raw[1] > raw[2] THEN "BUY" ELSE "SELL",
            strength |-> Max(raw[1] - raw[2], raw[2] - raw[1])]
      [] name = "BOLLINGER" ->     \* raw: middle_band, band_width, current_price
           [signal |-> IF 5 * raw[3] < 5 * raw[1] - 4 * raw[2] THEN "BUY"
                       ELSE IF 5 * raw[3] > 5 * raw[1] + 4 * raw[2] THEN "SELL"
                       ELSE "NEUTRAL",
            strength |-> (Max(raw[3] - raw[1], raw[1] - raw[3]) * One) \div raw[2]]
      [] name = "STOCHASTIC" ->    \* raw: k_value
           [signal |-> IF raw[1] < 20 THEN "BUY" ELSE IF raw[1] > 80 THEN "SELL" ELSE "NEUTRAL",
            strength |-> (Max(raw[1] - 50, 50 - raw[1]) * One) \div 50]
      [] name = "WILLIAMS_R" ->
           [signal |-> IF raw[1] < -80 THEN "BUY" ELSE IF raw[1] > -20 THEN "SELL" ELSE "NEUTRAL",
            strength |-> (Max(raw[1] + 50, -50 - raw[1]) * One) \div 50]
      [] name = "CCI" ->
           [signal |-> IF raw[1] < -100 THEN "BUY" ELSE IF raw[1] > 100 THEN "SELL" ELSE "NEUTRAL",
            strength |-> (Max(raw[1], -raw[1]) * One) \div 200]

\* raw values the market can give: oscillators over their whole ranges,
\* MACD lines of a high-priced instrument up to 1.5 apart, prices up to
\* four standard deviations from the middle band
RealRaw ==
    [RSI |-> {<<5 * i>> : i \in 0..20},
     MACD |-> {<<m, s>> : m \in {-One, -(One \div 2), 0, One \div 2, One},
                          s \in {-(One \div 2), 0, One \div 2}},
     BOLLINGER |-> {<<110, 100, 90, 80 + 5 * i>> : i \in 0..8},
     STOCHASTIC |-> {<<5 * i>> : i \in 0..20},
     WILLIAMS_R |-> {<<-5 * i>> : i \in 0..20},
     CCI |-> {<<50 * i - 300>> : i \in 0..12},
     SMA |-> {<<a, b>> : a \in {100, 150, 200}, b \in {100, 200}}]

\* raw values the simulation draws: random.uniform over the source's ranges
SimulatedRaw ==
    [RSI |-> {<<25 + 5 * i>> : i \in 0..10},
     MACD |-> {<<m, s>> : m \in {-(One \div 2), 0, One \div 2},
                          s \in {-(One \div 2), 0, One \div 2}},
     BOLLINGER |-> {<<150, 10, 140 + i>> : i \in 0..20 \ {2, 18}},
     STOCHASTIC |-> {<<10 + 5 * i>> : i \in 0..16},
     WILLIAMS_R |-> {<<-5 * i>> : i \in 0..20},
     CCI |-> {<<50 * i - 200>> : i \in 0..8}]

\* one entry of calculate_technical_indicators' mapping was computed
ReadRealIndicator ==
    /\ \E name \in DOMAIN RealRaw : \E raw \in RealRaw[name] :
          result' = Result("calculate_technical_indicators", "", "", FALSE, name, "",
                           <<raw>>, <<calculate_technical_indicators_entry(name, raw)>>)
    /\ UNCHANGED <<now, current_rotation_index, last_used, usage_count, signal_history,
                   accuracy_tracker, generated_signals, validated_signals, calls, origin, bot>>

\* one entry of _generate_technical_indicators' mapping was computed
ReadSimulatedIndicator ==
    /\ \E name \in DOMAIN SimulatedRaw : \E raw \in SimulatedRaw[name] :
          result' = Result("_generate_technical_indicators", "", "", FALSE, name, "",
                           <<raw>>, <<_generate_technical_indicators_entry(name, raw)>>)
    /\ UNCHANGED <<now, current_rotation_index, last_used, usage_count, signal_history,
                   accuracy_tracker, generated_signals, validated_signals, calls, origin, bot>>

NextIndicators == ReadRealIndicator \/ ReadSimulatedIndicator

SpecIndicators == InitAnalyzer /\ [][NextIndicators]_vars

\* the last operation computed an indicator reading
IndicatorResult ==
    result.op \in {"calculate_technical_indicators", "_generate_technical_indicators"}

\* C23: every indicator reading, on the real-data path and on the
\* simulated path, has a strength in [0,1] and a signal among BUY, SELL
\* and NEUTRAL.
C23_ReadingRange ==
    IndicatorResult =>
        /\ result.ret[1].signal \in {"BUY", "SELL", "NEUTRAL"}
        /\ result.ret[1].strength >= 0
        /\ result.ret[1].strength <= One


----------------------------------------------------------------------------
(* Reasoning text.                                                         *)

\* the phrases _generate_entry_reasoning has for the sentiment
SentimentPhrases ==
    {"Strong bullish sentiment", "Moderate bullish sentiment",
     "Strong bearish sentiment", "Moderate bearish sentiment"}

\* C24: the reasoning of a signal holds a sentiment phrase only if the
\* sentiment category agrees with the signal's direction (BULLISH with
\* BUY, BEARISH with SELL).
C24_SentimentPhraseAgrees ==
    result.op = "_generate_entry_reasoning" =>
        ((\E i \in 1..Len(result.ret) : result.ret[i] \in SentimentPhrases) =>
            \/ result.arg[1].sentiment.category = "BULLISH" /\ result.outcome = "BUY"
            \/ result.arg[1].sentiment.category = "BEARISH" /\ result.outcome = "SELL")


----------------------------------------------------------------------------
(* Delivery.                                                               *)

\* C25: every signal delivered to a user has a confidence of at least 75,
\* whatever alert settings the user has stored.
C25_DeliveredConfidence ==
    \A i \in 1..Len(bot.delivered) :
        bot.delivered[i].signal_data.confidence >= 75 * One

\* C26: a user whose max_signals_per_hour is N is delivered at most N
\* signals in any one-hour window: of the signals sent while the setting
\* was N, no more than N lie in the hour up to any one of them.
C26_DeliveredPerHour ==
    \A i \in 1..Len(bot.delivered) :
        LET N == bot.delivered[i].settings.max_signals_per_hour
            sent == bot.delivered[i].signal_data.generated_time
        IN  Cardinality({j \in 1..i :
                           /\ bot.delivered[j].settings.max_signals_per_hour = N
                           /\ bot.delivered[j].signal_data.generated_time > sent - 3600}) <= N


----------------------------------------------------------------------------
(* Quality gate.                                                           *)

\* C27: the quality gate passes exactly when sentiment.confidence is at
\* least 0.3, overall_confidence is at least 0.3, and either no pattern
\* was detected or pattern.confidence is at least 0.4.
C27_QualityGate ==
    result.op = "_check_signal_quality" =>
        LET analysis == result.arg[1]
        IN  result.outcome = "pass" <=>
               /\ 10 * analysis.sentiment.confidence >= 3 * One
               /\ 10 * analysis.confidence_factors.overall_confidence >= 3 * One
               /\ \/ analysis.patterns.pattern = ""
                  \/ 10 * analysis.patterns.confidence >= 4 * One

\* a signal without a pattern, with a pattern confidence of 0.25, passed
C27_Witness ==
    /\ result.op = "_check_signal_quality"
    /\ result.outcome = "pass"
    /\ result.arg[1].patterns.pattern = ""
    /\ 4 * result.arg[1].patterns.confidence = One


----------------------------------------------------------------------------
(* Failures inside generate_signal.                                        *)

\* C28: generate_signal never raises to its caller.  Every call ends as
\* accepted, rejected, without a candidate or with a caught exception; it
\* returns the complete signal when accepted and None otherwise; and the
\* generator can serve the next call.
C28_NeverRaises ==
    GenerateResult =>
        /\ result.outcome \in {"accepted", "rejected", "no_signal", "error"}
        /\ result.outcome = "accepted" =>
              /\ result.ret # <<>>
              /\ DOMAIN result.ret[1] =
                    {"asset", "category", "direction", "confidence", "expiration_time",
                     "generated_time", "analysis", "accuracy_target"}
        /\ result.outcome # "accepted" => result.ret = <<>>
        /\ Selectable(State) # {}

\* a call made after signals had been recorded ended with a caught
\* exception and returned None
C28_Witness ==
    /\ GenerateResult
    /\ result.outcome = "error"
    /\ result.ret = <<>>
    /\ signal_history # <<>>
    /\ calls = origin.calls + MaxCalls


----------------------------------------------------------------------------
(* Spacing of the history entries of one instrument.                       *)

\* C29: two entries of SignalHistory for the same instrument with no other
\* entry for that instrument between them have timestamps at least
\* cooldown_minutes (10 minutes) apart.
C29_CooldownSpacing ==
    \A i, j \in 1..Len(signal_history) :
        ( /\ i < j
          /\ signal_history[i].asset = signal_history[j].asset
          /\ \A k \in (i + 1)..(j - 1) : signal_history[k].asset # signal_history[i].asset )
        => signal_history[j].timestamp - signal_history[i].timestamp
              >= VALIDATION_RULES.cooldown_minutes * 60

\* generate_signal accepted a signal for an instrument exactly 10 minutes
\* after the previous entry for it, with an entry for another instrument
\* recorded in between
C29_Witness ==
    /\ GenerateResult
    /\ result.outcome = "accepted"
    /\ \E i, k \in 1..Len(signal_history) :
          /\ i < k
          /\ k < Len(signal_history)
          /\ signal_history[i].asset = result.asset
          /\ signal_history[k].asset # result.asset
          /\ \A m \in (i + 1)..(Len(signal_history) - 1) : signal_history[m].asset # result.asset
          /\ signal_history[Len(signal_history)].asset = result.asset
          /\ signal_history[Len(signal_history)].timestamp
                = signal_history[i].timestamp + VALIDATION_RULES.cooldown_minutes * 60


----------------------------------------------------------------------------
(* The generator's counters.                                               *)

\* C30: generated_signals equals validated_signals in every state, so the
\* validation_rate reported by get_statistics is 0 or 100; a
\* generate_signal call that is not accepted changes neither counter.
C30_CountersEqual ==
    /\ [](/\ generated_signals = validated_signals
          /\ get_statistics(State).validation_rate \in {0, 100 * One})
    /\ [][ (result'.op = "generate_signal" /\ result'.outcome # "accepted")
              => UNCHANGED <<generated_signals, validated_signals>> ]_vars

\* signals have been counted, the rate is 100, and the last call was a rejection
C30_Witness ==
    /\ GenerateResult
    /\ result.outcome = "rejected"
    /\ calls = origin.calls + MaxCalls
    /\ generated_signals > 0
    /\ get_statistics(State).generated_signals = get_statistics(State).validated_signals
    /\ get_statistics(State).validation_rate = 100 * One

====
